---- MODULE Spec2Model ----
(***************************************************************************)
(* State risk-scoring pipeline (streamlit_app/pages/state_risk.py) and     *)
(* health-cost projection pipeline (streamlit_app/pages/health_cost_proj.py)*)
(* of the AQI dashboard, with the cached metric function of                *)
(* streamlit_app/pages/citypop_aqi.py.                                     *)
(*                                                                         *)
(* Tables are sequences of records (one record per row, in row order).     *)
(* Strings are sequences of one-character strings, so that str.lower(),    *)
(* str.strip() and string ordering are computed, not assumed.  Floating    *)
(* point columns are exact rationals <<numerator, denominator>> in lowest  *)
(* terms with a positive denominator.                                      *)
(***************************************************************************)
EXTENDS Integers, Sequences, FiniteSets, TLC

VARIABLES
    aqi_df,            \* rows of aqi_clean.csv
    pop_df,            \* rows of population_clean.csv
    mpce_df,           \* rows of mpce_clean.csv
    pc,                \* "idle" | "returned" | "raised" | "extracted"
    call,              \* arguments of the last call
    risk_df,           \* first table returned by compute_state_risk
    joined_df,         \* the merged table before scaling and sorting
    areas_df,          \* second table returned by compute_state_risk
    global_areas_df,   \* third table returned by compute_state_risk
    top_areas,         \* table returned by a direct extract_high_aqi_areas call
    hp_df,             \* rows of health_params_clean.csv
    present,           \* the source files that exist in the data directory
    clock,             \* seconds since the process started
    cost_df,           \* table returned by compute_health_cost_impacts
    pop_sel,           \* table returned by a direct get_population_by_year call
    cache,             \* st.cache_data entries of get_state_aqi_metrics, by arguments
    procs,             \* the sessions that run a function concurrently
    quicksort_ties,    \* how this build's quicksort leaves rows of equal key
    passed_df,         \* the caller's table handed to a helper, as the caller sees it
    breakdown          \* table returned by get_city_aqi_category_breakdown_data

vars == <<aqi_df, pop_df, mpce_df, pc, call, risk_df, joined_df, areas_df,
          global_areas_df, top_areas, hp_df, present, clock, cost_df, pop_sel,
          cache, procs, quicksort_ties, passed_df, breakdown>>

\* the source files and the process-wide state no pipeline writes
sources == <<aqi_df, pop_df, mpce_df, hp_df, present>>
risk_out == <<risk_df, joined_df, areas_df, global_areas_df>>
sessions == <<cache, procs>>
aux == <<quicksort_ties, passed_df, breakdown>>

-----------------------------------------------------------------------------
(* Bounds of the model *)

MaxAqi == 3        \* AQI readings of the three-state tables are 1..MaxAqi
MaxAqiRows == 3    \* rows of the AQI table when its rows are free
MaxTop == 2        \* top_states, top_n and top_global_areas are 0..MaxTop
MaxJoinRows == 2   \* rows of each table when the state spellings are free

-----------------------------------------------------------------------------
(* Exact rational arithmetic standing for the float columns *)

Abs(n) == IF n < 0 THEN -n ELSE n

RECURSIVE GCD(_, _)
GCD(a, b) == IF b = 0 THEN a ELSE GCD(b, a % b)

\* n/0 with n # 0 is an infinity, 0/0 is NaN
Rat(n, d) ==
    LET g == GCD(Abs(n), Abs(d))
        s == IF d < 0 THEN -1 ELSE 1
    IN  IF g = 0 THEN <<0, 0>> ELSE <<(s * n) \div g, (s * d) \div g>>

RInt(n) == <<n, 1>>
RAdd(p, q) == Rat(p[1] * q[2] + q[1] * p[2], p[2] * q[2])
RSub(p, q) == Rat(p[1] * q[2] - q[1] * p[2], p[2] * q[2])
RMul(p, q) == Rat(p[1] * q[1], p[2] * q[2])
RDiv(p, q) == Rat(p[1] * q[2], p[2] * q[1])
RLt(p, q) == p[1] * q[2] < q[1] * p[2]
RLe(p, q) == p[1] * q[2] <= q[1] * p[2]

-----------------------------------------------------------------------------
(* Strings *)

\* code point of a character (Python compares strings by code point)
Ord(c) ==
    CASE c = " " -> 32
      [] c = "A" -> 65
      [] c = "B" -> 66
      [] c = "C" -> 67
      [] c = "X" -> 88
      [] c = "Y" -> 89
      [] c = "a" -> 97
      [] c = "b" -> 98
      [] c = "c" -> 99
      [] c = "x" -> 120
      [] c = "y" -> 121
      [] c = "z" -> 122
      [] c = "&" -> 38
      [] c = "D" -> 68
      [] c = "F" -> 70
      [] c = "H" -> 72
      [] c = "K" -> 75
      [] c = "L" -> 76
      [] c = "O" -> 79
      [] c = "d" -> 100
      [] c = "f" -> 102
      [] c = "h" -> 104
      [] c = "k" -> 107
      [] c = "l" -> 108
      [] c = "o" -> 111

LowerChar(c) ==
    CASE c = "A" -> "a"
      [] c = "B" -> "b"
      [] c = "C" -> "c"
      [] c = "X" -> "x"
      [] c = "Y" -> "y"
      [] c = "D" -> "d"
      [] c = "F" -> "f"
      [] c = "H" -> "h"
      [] c = "K" -> "k"
      [] c = "L" -> "l"
      [] c = "O" -> "o"
      [] OTHER -> c

\* str.lower()
StrLower(s) == [i \in 1..Len(s) |-> LowerChar(s[i])]

RECURSIVE LStrip(_)
LStrip(s) == IF s # <<>> /\ Head(s) = " " THEN LStrip(Tail(s)) ELSE s

RECURSIVE RStrip(_)
RStrip(s) ==
    IF s # <<>> /\ s[Len(s)] = " " THEN RStrip(SubSeq(s, 1, Len(s) - 1)) ELSE s

\* str.strip()
StrStrip(s) == RStrip(LStrip(s))

\* .str.lower().str.strip()
LowerStrip(s) == StrStrip(StrLower(s))

\* s < t for Python strings
RECURSIVE StrLt(_, _)
StrLt(s, t) ==
    IF t = <<>> THEN FALSE
    ELSE IF s = <<>> THEN TRUE
    ELSE IF Head(s) # Head(t) THEN Ord(Head(s)) < Ord(Head(t))
    ELSE StrLt(Tail(s), Tail(t))

-----------------------------------------------------------------------------
(* Generic table helpers *)

Range(f) == {f[i] : i \in DOMAIN f}

RECURSIVE SeqFilter(_, _)
\* rows of tbl whose index satisfies keep (a boolean function on DOMAIN tbl)
SeqFilter(tbl, keep) ==
    IF tbl = <<>> THEN <<>>
    ELSE LET n == Len(tbl)
             front == SeqFilter(SubSeq(tbl, 1, n - 1), [i \in 1..(n - 1) |-> keep[i]])
         IN  IF keep[n] THEN Append(front, tbl[n]) ELSE front

RECURSIVE Flatten(_)
Flatten(ss) == IF ss = <<>> THEN <<>> ELSE Head(ss) \o Flatten(Tail(ss))

\* mutant of DfHead: the count is ignored
DfHeadAll(tbl, n) == tbl

\* DataFrame.head(n) for n >= 0
DfHead(tbl, n) == SubSeq(tbl, 1, IF n < Len(tbl) THEN n ELSE Len(tbl))

RECURSIVE SumOf(_, _)
SumOf(tbl, col) == IF tbl = <<>> THEN 0 ELSE tbl[1][col] + SumOf(Tail(tbl), col)

\* Series.mean() of an integer column of a non-empty table
MeanOf(tbl, col) == Rat(SumOf(tbl, col), Len(tbl))

-----------------------------------------------------------------------------
(* annual_state_aqi_calendar *)

\* pd.to_datetime(..., dayfirst=True) of a date written <<dd, mm, yyyy>>
ToDatetimeDayfirst(d) == [day |-> d[1], month |-> d[2], year |-> d[3]]

\* the frame after the date and year columns are added (and, when asked,
\* state and area are lower-cased and stripped)
WithYear(tbl, normalise) ==
    [i \in 1..Len(tbl) |->
        [state     |-> IF normalise THEN LowerStrip(tbl[i].state) ELSE tbl[i].state,
         area      |-> IF normalise THEN LowerStrip(tbl[i].area) ELSE tbl[i].area,
         year      |-> ToDatetimeDayfirst(tbl[i].date).year,
         aqi_value |-> tbl[i].aqi_value]]

\* order of the group keys (state, year): groupby sorts its keys
StateYearLt(k, j) == StrLt(k[1], j[1]) \/ (k[1] = j[1] /\ k[2] < j[2])

RECURSIVE SortStateYear(_)
SortStateYear(S) ==
    IF S = {} THEN <<>>
    ELSE LET m == CHOOSE k \in S : \A j \in S : j = k \/ StateYearLt(k, j)
         IN  <<m>> \o SortStateYear(S \ {m})

annual_state_aqi_calendar(df_aqi) ==
    LET df   == WithYear(df_aqi, FALSE)
        keys == SortStateYear({<<r.state, r.year>> : r \in Range(df)})
    IN  [i \in 1..Len(keys) |->
            [state   |-> keys[i][1],
             year    |-> keys[i][2],
             avg_aqi |-> MeanOf(SeqFilter(df, [n \in 1..Len(df) |->
                             df[n].state = keys[i][1] /\ df[n].year = keys[i][2]]),
                           "aqi_value")]]

-----------------------------------------------------------------------------
(* project_mpce_2425 *)

\* variant: the reported increase is not applied
ProjectedWithoutIncrease(base, pct) == RInt(base)

\* base * (1 + pct / 100)
Projected(base, pct) ==
    RMul(RInt(base), RAdd(RInt(1), RDiv(RInt(pct), RInt(100))))

project_mpce_2425(df_mpce) ==
    [i \in 1..Len(df_mpce) |->
        LET r == df_mpce[i]
            proj_rural_2425 == Projected(r.average_mpce_2023_2024_rural,
                                         r.percentage_increase_rural)
            proj_urban_2425 == Projected(r.average_mpce_2023_2024_urban,
                                         r.percentage_increase_urban)
        IN  [state        |-> LowerStrip(r.State_UT),
             mpce_2024_25 |-> RDiv(RAdd(proj_rural_2425, proj_urban_2425), RInt(2))]]

-----------------------------------------------------------------------------
(* get_population_by_year *)

\* Series.str.lower() on the month names that occur in the tables
MonthLower(m) ==
    CASE m = "January"  -> "january"
      [] m = "February" -> "february"
      [] m = "March"    -> "march"
      [] OTHER          -> m

month_map(m) ==
    CASE m = "january"   -> 1
      [] m = "february"  -> 2
      [] m = "march"     -> 3
      [] m = "april"     -> 4
      [] m = "may"       -> 5
      [] m = "june"      -> 6
      [] m = "july"      -> 7
      [] m = "august"    -> 8
      [] m = "september" -> 9
      [] m = "october"   -> 10
      [] m = "november"  -> 11
      [] m = "december"  -> 12

MaxOfSet(S) == CHOOSE x \in S : \A y \in S : y <= x

get_population_by_year(df_pop, year) ==
    LET df      == [i \in 1..Len(df_pop) |->
                       [df_pop[i] EXCEPT !.state = LowerStrip(df_pop[i].state)]]
        df_year == SeqFilter(df, [i \in 1..Len(df) |-> df[i].year = year])
        month_num(i) == month_map(MonthLower(df_year[i].month))
        df_sel  == IF df_year = <<>> THEN <<>>
                   ELSE LET max_m == MaxOfSet({month_num(i) : i \in 1..Len(df_year)})
                        IN  SeqFilter(df_year,
                                [i \in 1..Len(df_year) |-> month_num(i) = max_m])
    IN  [i \in 1..Len(df_sel) |->
            [state |-> df_sel[i].state, population |-> RInt(df_sel[i].pop_total)]]

-----------------------------------------------------------------------------
(* DataFrame.merge(..., on="state", how="inner") *)

\* rows of right matching one left row, each joined to it, in right's order
MatchesOf(l, right) ==
    LET hit == SeqFilter(right, [j \in 1..Len(right) |-> right[j].state = l.state])
    IN  [j \in 1..Len(hit) |-> l @@ hit[j]]

\* the inner join keeps the order of the left keys
MergeInner(left, right) ==
    Flatten([i \in 1..Len(left) |-> MatchesOf(left[i], right)])

-----------------------------------------------------------------------------
(* sklearn MinMaxScaler, feature_range (0, 1) *)

RMinOf(S) == CHOOSE x \in S : \A y \in S : RLe(x, y)
RMaxOf(S) == CHOOSE x \in S : \A y \in S : RLe(y, x)

\* mutant of HandleZerosInScale: a zero range is kept, so that the scale of
\* a constant column is 1/0 and its transform is inf - inf
HandleZerosInScaleAbsent(data_range) == data_range

\* _handle_zeros_in_scale: a constant column is scaled by 1
HandleZerosInScale(data_range) ==
    IF data_range = RInt(0) THEN RInt(1) ELSE data_range

\* mutant of MinMaxScale: the column is divided by its maximum, the minimum
\* is not subtracted
MinMaxScaleByMax(tbl, col, x) ==
    RDiv(x, RMaxOf({tbl[i][col] : i \in 1..Len(tbl)}))

\* fit: scale_ and min_ of one column; transform: X * scale_ + min_
MinMaxScale(tbl, col, x) ==
    LET data_min   == RMinOf({tbl[i][col] : i \in 1..Len(tbl)})
        data_max   == RMaxOf({tbl[i][col] : i \in 1..Len(tbl)})
        data_range == RSub(data_max, data_min)
        scale_     == RDiv(RInt(1), HandleZerosInScale(data_range))
        min_       == RSub(RInt(0), RMul(data_min, scale_))
    IN  RAdd(RMul(x, scale_), min_)

\* check_array: fit_transform needs at least one sample
ScalerRaises(tbl) == Len(tbl) = 0

-----------------------------------------------------------------------------
(* The weighted risk score and the descending sort *)

w_aqi == Rat(7, 10)
w_pop == Rat(2, 10)
w_mpce == Rat(1, 10)

\* mutant of RiskScore: the expenditure term is not inverted
RiskScoreMpceNotInverted(aqi_n, pop_n, mpce_n) ==
    RAdd(RAdd(RMul(w_aqi, aqi_n), RMul(w_pop, pop_n)), RMul(w_mpce, mpce_n))

RiskScore(aqi_n, pop_n, mpce_n) ==
    RAdd(RAdd(RMul(w_aqi, aqi_n), RMul(w_pop, pop_n)),
         RMul(w_mpce, RSub(RInt(1), mpce_n)))

WithScores(df) ==
    [i \in 1..Len(df) |->
        LET aqi_n  == MinMaxScale(df, "avg_aqi", df[i].avg_aqi)
            pop_n  == MinMaxScale(df, "population", df[i].population)
            mpce_n == MinMaxScale(df, "mpce_2024_25", df[i].mpce_2024_25)
        IN  df[i] @@ [aqi_n |-> aqi_n, pop_n |-> pop_n, mpce_n |-> mpce_n,
                      risk_score |-> RiskScore(aqi_n, pop_n, mpce_n)]]

Reverse(s) == [i \in 1..Len(s) |-> s[Len(s) + 1 - i]]

\* insert row r behind every row whose risk_score is <= its own
RECURSIVE InsertByScore(_, _)
InsertByScore(sorted, r) ==
    IF sorted = <<>> THEN <<r>>
    ELSE IF RLe(sorted[Len(sorted)].risk_score, r.risk_score)
         THEN Append(sorted, r)
         ELSE Append(InsertByScore(SubSeq(sorted, 1, Len(sorted) - 1), r),
                     sorted[Len(sorted)])

\* ascending argsort that leaves rows of equal key in their input order
RECURSIVE SortAscByScore(_)
SortAscByScore(tbl) ==
    IF tbl = <<>> THEN <<>>
    ELSE InsertByScore(SortAscByScore(SubSeq(tbl, 1, Len(tbl) - 1)), tbl[Len(tbl)])

\* mutant of SortByRiskDesc: ascending=False is dropped
SortByRiskAsc(tbl) == SortAscByScore(tbl)

\* mutant of SortByRiskDesc: the table is left in join order
SortByRiskSkipped(tbl) == tbl

\* sort_values("risk_score", ascending=False) with the default
\* kind="quicksort": pandas reverses the rows, argsorts ascending and reverses
\* the result.  quicksort promises no order among rows of equal key: a build
\* either leaves them as they came or, here, hands them back reversed
SortByRiskDesc(tbl) ==
    IF quicksort_ties = "kept" THEN Reverse(SortAscByScore(Reverse(tbl)))
    ELSE Reverse(SortAscByScore(tbl))

-----------------------------------------------------------------------------
(* extract_high_aqi_areas *)

\* order of the group keys (state, area)
StateAreaLt(k, j) == StrLt(k[1], j[1]) \/ (k[1] = j[1] /\ StrLt(k[2], j[2]))

RECURSIVE SortStateArea(_)
SortStateArea(S) ==
    IF S = {} THEN <<>>
    ELSE LET m == CHOOSE k \in S : \A j \in S : j = k \/ StateAreaLt(k, j)
         IN  <<m>> \o SortStateArea(S \ {m})

\* df[(df["year"] == year) & (df["state"].isin(states))]
YearAndStates(df, states, year) ==
    SeqFilter(df, [i \in 1..Len(df) |->
        df[i].year = year /\ df[i].state \in Range(states)])

\* groupby(["state", "area"]).mean()
AvgArea(df) ==
    LET keys == SortStateArea({<<r.state, r.area>> : r \in Range(df)})
    IN  [i \in 1..Len(keys) |->
            [state   |-> keys[i][1],
             area    |-> keys[i][2],
             avg_aqi |-> MeanOf(SeqFilter(df, [n \in 1..Len(df) |->
                             df[n].state = keys[i][1] /\ df[n].area = keys[i][2]]),
                           "aqi_value")]]

\* mutant of StateAscAqiDescLe: avg_aqi ascending
StateAscAqiAscLe(r, q) ==
    StrLt(r.state, q.state) \/ (r.state = q.state /\ RLe(r.avg_aqi, q.avg_aqi))

\* row r sorts no later than row q: state ascending, then avg_aqi descending
StateAscAqiDescLe(r, q) ==
    StrLt(r.state, q.state) \/ (r.state = q.state /\ RLe(q.avg_aqi, r.avg_aqi))

RECURSIVE InsertByStateAqi(_, _)
InsertByStateAqi(sorted, r) ==
    IF sorted = <<>> THEN <<r>>
    ELSE IF StateAscAqiDescLe(sorted[Len(sorted)], r)
         THEN Append(sorted, r)
         ELSE Append(InsertByStateAqi(SubSeq(sorted, 1, Len(sorted) - 1), r),
                     sorted[Len(sorted)])

\* sort_values(["state", "avg_aqi"], ascending=[True, False]) (a stable lexsort)
RECURSIVE SortStateAscAqiDesc(_)
SortStateAscAqiDesc(tbl) ==
    IF tbl = <<>> THEN <<>>
    ELSE InsertByStateAqi(SortStateAscAqiDesc(SubSeq(tbl, 1, Len(tbl) - 1)),
                          tbl[Len(tbl)])

\* mutant of GroupHead: one row too many per state
GroupHeadInclusive(tbl, top_n) ==
    SeqFilter(tbl, [i \in 1..Len(tbl) |->
        Cardinality({j \in 1..(i - 1) : tbl[j].state = tbl[i].state}) <= top_n])

\* groupby("state").head(top_n): the rows with fewer than top_n rows of
\* their state before them
GroupHead(tbl, top_n) ==
    SeqFilter(tbl, [i \in 1..Len(tbl) |->
        Cardinality({j \in 1..(i - 1) : tbl[j].state = tbl[i].state}) < top_n])

extract_high_aqi_areas(df_aqi, states, year, top_n) ==
    LET df       == YearAndStates(WithYear(df_aqi, TRUE), states, year)
        avg_area == AvgArea(df)
    IN  GroupHead(SortStateAscAqiDesc(avg_area), top_n)

\* Series.unique(): the distinct values in order of first appearance
RECURSIVE Unique(_)
Unique(s) ==
    IF s = <<>> THEN <<>>
    ELSE LET front == Unique(SubSeq(s, 1, Len(s) - 1))
         IN  IF s[Len(s)] \in Range(front) THEN front ELSE Append(front, s[Len(s)])

-----------------------------------------------------------------------------
(* compute_state_risk *)

\* variant: the expenditure file is optional
RiskFilesWithoutMpce == {"aqi_clean.csv", "population_clean.csv"}

\* variant: the merged table is appended to the one left by the previous call
JoinedDriversAppended(target_year) ==
    LET aqi_ann    == annual_state_aqi_calendar(aqi_df)
        aqi_target == SeqFilter(aqi_ann,
                          [i \in 1..Len(aqi_ann) |-> aqi_ann[i].year = target_year])
        mpce_proj  == project_mpce_2425(mpce_df)
        pop_target == get_population_by_year(pop_df, target_year)
    IN  joined_df \o MergeInner(MergeInner(aqi_target, pop_target), mpce_proj)

\* the files compute_state_risk reads
RiskFiles == {"aqi_clean.csv", "population_clean.csv", "mpce_clean.csv"}

\* the merged table of the three drivers for the target year
JoinedDrivers(target_year) ==
    LET aqi_ann    == annual_state_aqi_calendar(aqi_df)
        aqi_target == SeqFilter(aqi_ann,
                          [i \in 1..Len(aqi_ann) |-> aqi_ann[i].year = target_year])
        mpce_proj  == project_mpce_2425(mpce_df)
        pop_target == get_population_by_year(pop_df, target_year)
    IN  MergeInner(MergeInner(aqi_target, pop_target), mpce_proj)

StateColumn(tbl) == [i \in 1..Len(tbl) |-> tbl[i].state]

\* the call returns its three tables
ComputeStateRisk(target_year, top_states, top_areas_per_state, top_global_areas) ==
    LET df          == JoinedDrivers(target_year)
        risk        == SortByRiskDesc(WithScores(df))
        high_states == StateColumn(DfHead(risk, top_states))
        all_states  == Unique([i \in 1..Len(aqi_df) |-> LowerStrip(aqi_df[i].state)])
    IN  /\ pc = "idle"
        /\ RiskFiles \subseteq present
        /\ ~ScalerRaises(df)
        /\ pc' = "returned"
        /\ call' = [target_year |-> target_year, top_states |-> top_states,
                    top_areas_per_state |-> top_areas_per_state,
                    top_global_areas |-> top_global_areas, at |-> clock]
        /\ joined_df' = df
        /\ risk_df' = risk
        /\ areas_df' = extract_high_aqi_areas(aqi_df, high_states, target_year,
                                              top_areas_per_state)
        /\ global_areas_df' = extract_high_aqi_areas(aqi_df, all_states, target_year,
                                                     top_global_areas)
        /\ UNCHANGED <<aux, sources, top_areas, clock, cost_df, pop_sel, sessions>>

\* the call ends in the scaler's ValueError: no table is returned
ComputeStateRiskRaises(target_year, top_states, top_areas_per_state, top_global_areas) ==
    LET df == JoinedDrivers(target_year)
    IN  /\ pc = "idle"
        /\ RiskFiles \subseteq present
        /\ ScalerRaises(df)
        /\ pc' = "raised"
        /\ call' = [target_year |-> target_year, top_states |-> top_states,
                    top_areas_per_state |-> top_areas_per_state,
                    top_global_areas |-> top_global_areas, at |-> clock]
        /\ joined_df' = df
        /\ UNCHANGED <<aux, sources, risk_df, areas_df, global_areas_df, top_areas,
                       clock, cost_df, pop_sel, sessions>>

\* a direct call of extract_high_aqi_areas on the AQI table
ExtractHighAqiAreas(states, year, top_n) ==
    /\ pc = "idle"
    /\ pc' = "extracted"
    /\ call' = [states |-> states, year |-> year, top_n |-> top_n]
    /\ top_areas' = extract_high_aqi_areas(aqi_df, states, year, top_n)
    /\ UNCHANGED <<aux, sources, risk_out, clock, cost_df, pop_sel, sessions>>

\* a direct call of get_population_by_year on the population table
GetPopulationByYear(year) ==
    /\ pc = "idle"
    /\ pc' = "selected"
    /\ call' = [year |-> year]
    /\ pop_sel' = get_population_by_year(pop_df, year)
    /\ UNCHANGED <<aux, sources, risk_out, top_areas, clock, cost_df, sessions>>

-----------------------------------------------------------------------------
(* compute_state_risk when a source file is missing *)

\* pd.read_csv raises FileNotFoundError on the first missing file; nothing
\* has been computed by then
ComputeStateRiskFileMissing(target_year, top_states, top_areas_per_state, top_global_areas) ==
    /\ pc = "idle"
    /\ ~(RiskFiles \subseteq present)
    /\ pc' = "raised"
    /\ call' = [target_year |-> target_year, top_states |-> top_states,
                top_areas_per_state |-> top_areas_per_state,
                top_global_areas |-> top_global_areas, at |-> clock]
    /\ UNCHANGED <<aux, sources, risk_out, top_areas, clock, cost_df, pop_sel, sessions>>

\* the page script runs again from the top; the previous run's call, how it
\* ended and what it returned are kept for comparison
Rerun ==
    /\ pc \in {"returned", "raised", "costed", "cost_raised", "selected", "served"}
    /\ pc' = "idle"
    /\ call' = [x \in DOMAIN call \cup {"ended"} |->
                    IF x = "ended" THEN pc ELSE call[x]]
    /\ UNCHANGED <<aux, sources, risk_out, top_areas, clock, cost_df, pop_sel, sessions>>

\* expiry window of the cached loaders, in seconds
ttl == 3600

\* d seconds pass between two runs of the page script
Tick(d) ==
    /\ pc = "idle"
    /\ clock + d <= 2 * ttl
    /\ clock' = clock + d
    /\ UNCHANGED <<aux, sources, pc, call, risk_out, top_areas, cost_df, pop_sel, sessions>>

\* aqi_clean.csv is replaced by a new snapshot between two runs
RefreshFiles(new_aqi) ==
    /\ pc = "idle"
    /\ "aqi_clean.csv" \in present
    /\ new_aqi # aqi_df
    /\ aqi_df' = new_aqi
    /\ UNCHANGED <<aux, pop_df, mpce_df, hp_df, present, pc, call, risk_out, top_areas,
                   clock, cost_df, pop_sel, sessions>>

-----------------------------------------------------------------------------
(* compute_health_cost_impacts *)

\* a missing value (NaN) of a float column
NaN == <<0, 0>>

NSub(p, q) == IF p = NaN \/ q = NaN THEN NaN ELSE RSub(p, q)
NMul(p, q) == IF p = NaN \/ q = NaN THEN NaN ELSE RMul(p, q)
NDiv(p, q) == IF p = NaN \/ q = NaN THEN NaN ELSE RDiv(p, q)

RECURSIVE RPowNat(_, _)
\* variant: b ** 0 taken as b
RPowNatFromBase(b, n) == IF n = 0 THEN b ELSE RMul(b, RPowNat(b, n - 1))

RPowNat(b, n) == IF n = 0 THEN RInt(1) ELSE RMul(b, RPowNat(b, n - 1))

\* b ** e for a positive base and an exponent that is a whole number (the
\* tables of the model keep delta_aqi a multiple of 10)
NPow(b, e) ==
    CASE b = NaN \/ e = NaN -> NaN
      [] e[2] = 1 /\ e[1] >= 0 -> RPowNat(b, e[1])
      [] e[2] = 1 /\ e[1] < 0 -> RDiv(RInt(1), RPowNat(b, -e[1]))

UpperChar(c) ==
    CASE c = "a" -> "A"
      [] c = "b" -> "B"
      [] c = "c" -> "C"
      [] c = "x" -> "X"
      [] c = "y" -> "Y"
      [] c = "z" -> "Z"
      [] c = "d" -> "D"
      [] c = "f" -> "F"
      [] c = "h" -> "H"
      [] c = "k" -> "K"
      [] c = "l" -> "L"
      [] c = "o" -> "O"
      [] OTHER -> c

IsLetter(c) == c \notin {" ", "_", "&"}

\* str.title(): a letter that follows no letter is upper-cased, the others
\* are lower-cased
StrTitle(s) ==
    [i \in 1..Len(s) |->
        IF i = 1 \/ ~IsLetter(s[i - 1]) THEN UpperChar(s[i]) ELSE LowerChar(s[i])]

\* str.replace("_", " ")
UnderscoreToSpace(s) == [i \in 1..Len(s) |-> IF s[i] = "_" THEN " " ELSE s[i]]

\* the files compute_health_cost_impacts reads
CostFiles == {"health_params_clean.csv", "population_clean.csv", "aqi_clean.csv"}

\* variant: pop_total read as thousands, as get_city_aqi_metrics reads it
HcPopYearThousands(target_year) ==
    LET pop      == [i \in 1..Len(pop_df) |->
                        [pop_df[i] EXCEPT !.state = LowerStrip(pop_df[i].state)]]
        pop_year == SeqFilter(pop, [i \in 1..Len(pop) |-> pop[i].year = target_year])
        mnum(i)  == month_map(MonthLower(pop_year[i].month))
        latest   == IF pop_year = <<>> THEN <<>>
                    ELSE SeqFilter(pop_year, [i \in 1..Len(pop_year) |->
                             mnum(i) = MaxOfSet({mnum(j) : j \in 1..Len(pop_year)})])
    IN  [i \in 1..Len(latest) |->
            [state |-> latest[i].state, population |-> RInt(1000 * latest[i].pop_total)]]

\* pop_year: the rows of the target year's latest month, state and population
HcPopYear(target_year) ==
    LET pop      == [i \in 1..Len(pop_df) |->
                        [pop_df[i] EXCEPT !.state = LowerStrip(pop_df[i].state)]]
        pop_year == SeqFilter(pop, [i \in 1..Len(pop) |-> pop[i].year = target_year])
        mnum(i)  == month_map(MonthLower(pop_year[i].month))
        latest   == IF pop_year = <<>> THEN <<>>
                    ELSE SeqFilter(pop_year, [i \in 1..Len(pop_year) |->
                             mnum(i) = MaxOfSet({mnum(j) : j \in 1..Len(pop_year)})])
    IN  [i \in 1..Len(latest) |->
            [state |-> latest[i].state, population |-> RInt(latest[i].pop_total)]]

\* aqi_ann: the mean AQI per normalised state and year, with delta_aqi
HcAqiAnn(cf_aqi) ==
    LET aqi  == WithYear(aqi_df, TRUE)
        keys == SortStateYear({<<r.state, r.year>> : r \in Range(aqi)})
    IN  [i \in 1..Len(keys) |->
            LET avg_aqi == MeanOf(SeqFilter(aqi, [n \in 1..Len(aqi) |->
                               aqi[n].state = keys[i][1] /\ aqi[n].year = keys[i][2]]),
                             "aqi_value")
            IN  [state |-> keys[i][1], year |-> keys[i][2], avg_aqi |-> avg_aqi,
                 delta_aqi |-> RSub(avg_aqi, cf_aqi)]]

\* pd.DataFrame({"state": states}).merge(hp_df, how="cross")
CrossMerge(states, hp) ==
    Flatten([i \in 1..Len(states) |->
                [k \in 1..Len(hp) |-> [state |-> states[i]] @@ hp[k]]])

\* variant: a left row without a match is dropped
LeftMatchesOfInner(l, right, blank) ==
    LET hit == SeqFilter(right, [j \in 1..Len(right) |-> right[j].state = l.state])
    IN  [j \in 1..Len(hit) |-> l @@ hit[j]]

\* the rows of right matching one left row joined to it, or the left row
\* with the columns of blank when there is none
LeftMatchesOf(l, right, blank) ==
    LET hit == SeqFilter(right, [j \in 1..Len(right) |-> right[j].state = l.state])
    IN  IF hit = <<>> THEN <<l @@ blank>> ELSE [j \in 1..Len(hit) |-> l @@ hit[j]]

\* DataFrame.merge(..., on="state", how="left")
MergeLeft(left, right, blank) ==
    Flatten([i \in 1..Len(left) |-> LeftMatchesOf(left[i], right, blank)])

\* variant: the fraction of the unexposed, (1 - rr_total) / rr_total
PafReversed(rr_total) == NDiv(NSub(RInt(1), rr_total), rr_total)

\* variant: the unit cost divided by the population
CostPersonPerCapita(r, cost) == NDiv(RInt(cost), r.population)

\* paf = (rr_total - 1) / rr_total
Paf(rr_total) == NDiv(NSub(rr_total, RInt(1)), rr_total)

\* variant: negative attributable cases are clamped to 0
AttrCasesClamped(attr_rate, population) ==
    LET attr_cases == NDiv(NMul(attr_rate, population), RInt(100000))
    IN  IF attr_cases # NaN /\ RLt(attr_cases, RInt(0)) THEN RInt(0) ELSE attr_cases

\* attr_cases = attr_rate * population / 100_000
AttrCases(attr_rate, population) == NDiv(NMul(attr_rate, population), RInt(100000))

\* cost_{kind}_total = attr_cases * cost_{kind}
CostTotal(attr_cases, cost) == NMul(attr_cases, RInt(cost))

\* cost_{kind}_person = cost_{kind}
CostPerson(r, cost) == RInt(cost)

\* the PAF, case and cost columns of one merged row, and the display names
WithImpacts(r) ==
    LET rr_total   == NPow(r.rr_per_10ug, NDiv(r.delta_aqi, RInt(10)))
        paf        == Paf(rr_total)
        attr_rate  == NMul(paf, RInt(r.baseline_incidence))
        attr_cases == AttrCases(attr_rate, r.population)
    IN  [r EXCEPT !.state = StrTitle(r.state),
                  !.outcome = StrTitle(UnderscoreToSpace(r.outcome))]
        @@ [rr_total |-> rr_total, paf |-> paf, attr_rate |-> attr_rate,
            attr_cases |-> attr_cases,
            cost_mean_total |-> CostTotal(attr_cases, r.cost_mean),
            cost_min_total  |-> CostTotal(attr_cases, r.cost_min),
            cost_max_total  |-> CostTotal(attr_cases, r.cost_max),
            cost_mean_person |-> CostPerson(r, r.cost_mean),
            cost_min_person  |-> CostPerson(r, r.cost_min),
            cost_max_person  |-> CostPerson(r, r.cost_max)]

compute_health_cost_impacts(target_year, cf_aqi) ==
    LET pop_year == HcPopYear(target_year)
        aqi_ann  == HcAqiAnn(cf_aqi)
        target   == SeqFilter(aqi_ann,
                        [i \in 1..Len(aqi_ann) |-> aqi_ann[i].year = target_year])
        states   == Unique(StateColumn(target))
        combo    == CrossMerge(states, hp_df)
        with_aqi == MergeLeft(combo,
                        [i \in 1..Len(target) |->
                            [state |-> target[i].state, avg_aqi |-> target[i].avg_aqi,
                             delta_aqi |-> target[i].delta_aqi]],
                        [avg_aqi |-> NaN, delta_aqi |-> NaN])
        merged   == MergeLeft(with_aqi, pop_year, [population |-> NaN])
    IN  [i \in 1..Len(merged) |-> WithImpacts(merged[i])]

\* the call returns its table
ComputeHealthCostImpacts(target_year, cf_aqi) ==
    /\ pc = "idle"
    /\ CostFiles \subseteq present
    /\ pc' = "costed"
    /\ call' = [target_year |-> target_year, cf_aqi |-> cf_aqi, at |-> clock]
    /\ cost_df' = compute_health_cost_impacts(target_year, cf_aqi)
    /\ UNCHANGED <<aux, sources, risk_out, top_areas, clock, pop_sel, sessions>>

\* pd.read_csv raises FileNotFoundError on the first missing file
ComputeHealthCostImpactsFileMissing(target_year, cf_aqi) ==
    /\ pc = "idle"
    /\ ~(CostFiles \subseteq present)
    /\ pc' = "cost_raised"
    /\ call' = [target_year |-> target_year, cf_aqi |-> cf_aqi, at |-> clock]
    /\ UNCHANGED <<aux, sources, risk_out, top_areas, clock, cost_df, pop_sel, sessions>>

-----------------------------------------------------------------------------
(* get_state_aqi_metrics, cached with st.cache_data(ttl=3600), and the
   sessions that call it or compute_state_risk side by side *)

\* parse_dates=["date"]: of a date written <<a, b, yyyy>> the first field
\* is the month when it can be, the day otherwise
ParseDates(d) ==
    IF d[1] <= 12 THEN [day |-> d[2], month |-> d[1], year |-> d[3]]
    ELSE [day |-> d[1], month |-> d[2], year |-> d[3]]

\* t <= u for two timestamps
TsLe(t, u) ==
    \/ t.year < u.year
    \/ t.year = u.year /\ t.month < u.month
    \/ t.year = u.year /\ t.month = u.month /\ t.day <= u.day

RECURSIVE SortStates(_)
\* the state names of a set in groupby's (ascending) order
SortStates(S) ==
    IF S = {} THEN <<>>
    ELSE LET least == CHOOSE x \in S : \A y \in S : x = y \/ StrLt(x, y)
         IN  <<least>> \o SortStates(S \ {least})

\* the inner join of df_pop with df_aqi on State, in the order of df_pop
MergeOnState(df_pop, df_aqi) ==
    Flatten([i \in 1..Len(df_pop) |->
        LET hit == SeqFilter(df_aqi,
                       [j \in 1..Len(df_aqi) |-> df_aqi[j].State = df_pop[i].State])
        IN  [j \in 1..Len(hit) |-> df_pop[i] @@ hit[j]]])

get_state_aqi_metrics(aqi, pop, start_ts, end_ts, pop_year) ==
    LET inside == SeqFilter(aqi, [i \in 1..Len(aqi) |->
                      /\ TsLe(start_ts, ParseDates(aqi[i].date))
                      /\ TsLe(ParseDates(aqi[i].date), end_ts)])
        keys   == SortStates({r.state : r \in Range(inside)})
        df_aqi == [k \in 1..Len(keys) |->
                      [State |-> keys[k],
                       Average_AQI |-> MeanOf(SeqFilter(inside,
                           [i \in 1..Len(inside) |-> inside[i].state = keys[k]]),
                           "aqi_value")]]
        of_yr  == SeqFilter(pop, [i \in 1..Len(pop) |-> pop[i].year = pop_year])
        df_pop == [i \in 1..Len(of_yr) |->
                      [State |-> of_yr[i].state, Population |-> of_yr[i].pop_total]]
    IN  MergeOnState(df_pop, df_aqi)

\* the three tables compute_state_risk returns
StateRiskTables(a) ==
    LET risk == SortByRiskDesc(WithScores(JoinedDrivers(a.target_year)))
    IN  <<risk,
          extract_high_aqi_areas(aqi_df, StateColumn(DfHead(risk, a.top_states)),
                                 a.target_year, a.top_areas_per_state),
          extract_high_aqi_areas(aqi_df,
              Unique([i \in 1..Len(aqi_df) |-> LowerStrip(aqi_df[i].state)]),
              a.target_year, a.top_global_areas)>>

\* the unexpired cache entries stored under a key
EntriesOf(key) ==
    {i \in 1..Len(cache) : cache[i].key = key /\ clock - cache[i].at < ttl}

\* variant: only the first row of the value has been written
CacheValueHalfWritten(value) == DfHead(value, 1)

\* the value written to the cache
CacheValue(value) == value

\* the fields of upd replace those of session p
Step(p, upd) ==
    procs' = [procs EXCEPT ![p] = upd @@ procs[p]]

\* a session starts a call of fn with arguments args
StartSession(fn, args) ==
    /\ pc = "idle"
    /\ procs' = Append(procs, [pc |-> "called", fn |-> fn, args |-> args,
                               aqi |-> <<>>, pop |-> <<>>, via |-> "none",
                               result |-> <<>>])
    /\ UNCHANGED <<aux, sources, pc, call, risk_out, top_areas, clock, cost_df, pop_sel,
                   cache>>

\* the decorator finds an unexpired entry and returns a copy of its value
CacheHit(p) ==
    /\ procs[p].pc = "called"
    /\ procs[p].fn = "get_state_aqi_metrics"
    /\ EntriesOf(procs[p].args) # {}
    /\ \E i \in EntriesOf(procs[p].args) :
          Step(p, [pc |-> "done", via |-> "cache", result |-> cache[i].value])
    /\ UNCHANGED <<aux, sources, pc, call, risk_out, top_areas, clock, cost_df, pop_sel,
                   cache>>

\* the decorator finds no entry: the function body runs
CacheMiss(p) ==
    /\ procs[p].pc = "called"
    /\ procs[p].fn = "get_state_aqi_metrics"
    /\ EntriesOf(procs[p].args) = {}
    /\ Step(p, [pc |-> "read_aqi"])
    /\ UNCHANGED <<aux, sources, pc, call, risk_out, top_areas, clock, cost_df, pop_sel,
                   cache>>

\* pd.read_csv of aqi_clean.csv
ReadAqi(p) ==
    /\ procs[p].pc = "read_aqi"
    /\ "aqi_clean.csv" \in present
    /\ Step(p, [pc |-> "read_pop", aqi |-> aqi_df])
    /\ UNCHANGED <<aux, sources, pc, call, risk_out, top_areas, clock, cost_df, pop_sel,
                   cache>>

\* pd.read_csv of population_clean.csv, then the filter, the rename and the merge
ReadPopAndMerge(p) ==
    /\ procs[p].pc = "read_pop"
    /\ "population_clean.csv" \in present
    /\ Step(p, [pc |-> "store", pop |-> pop_df, via |-> "computed",
                result |-> get_state_aqi_metrics(procs[p].aqi, pop_df,
                               procs[p].args[1], procs[p].args[2], procs[p].args[3])])
    /\ UNCHANGED <<aux, sources, pc, call, risk_out, top_areas, clock, cost_df, pop_sel,
                   cache>>

\* the decorator stores the returned value under the arguments
CacheStore(p) ==
    /\ procs[p].pc = "store"
    /\ cache' = SeqFilter(cache, [i \in 1..Len(cache) |-> cache[i].key # procs[p].args])
                \o <<[key |-> procs[p].args, value |-> CacheValue(procs[p].result),
                      at |-> clock]>>
    /\ Step(p, [pc |-> "done"])
    /\ UNCHANGED <<aux, sources, pc, call, risk_out, top_areas, clock, cost_df, pop_sel>>

\* compute_state_risk runs in session p and returns
SessionStateRisk(p) ==
    /\ procs[p].pc = "called"
    /\ procs[p].fn = "compute_state_risk"
    /\ RiskFiles \subseteq present
    /\ ~ScalerRaises(JoinedDrivers(procs[p].args.target_year))
    /\ Step(p, [pc |-> "done", via |-> "computed",
                result |-> StateRiskTables(procs[p].args)])
    /\ UNCHANGED <<aux, sources, pc, call, risk_out, top_areas, clock, cost_df, pop_sel,
                   cache>>

\* compute_state_risk runs in session p and ends in the scaler's ValueError
SessionStateRiskRaises(p) ==
    /\ procs[p].pc = "called"
    /\ procs[p].fn = "compute_state_risk"
    /\ RiskFiles \subseteq present
    /\ ScalerRaises(JoinedDrivers(procs[p].args.target_year))
    /\ Step(p, [pc |-> "raised"])
    /\ UNCHANGED <<aux, sources, pc, call, risk_out, top_areas, clock, cost_df, pop_sel,
                   cache>>

-----------------------------------------------------------------------------
(* data_loader.py: harmonised state names *)

\* str.replace(old, new): the occurrences of old from left to right, not
\* overlapping
RECURSIVE StrReplace(_, _, _)
StrReplace(s, old, new) ==
    IF Len(s) < Len(old) THEN s
    ELSE IF SubSeq(s, 1, Len(old)) = old
         THEN new \o StrReplace(SubSeq(s, Len(old) + 1, Len(s)), old, new)
         ELSE <<Head(s)>> \o StrReplace(Tail(s), old, new)

\* name.strip().title().replace(" & ", " And ").replace(" Of ", " of ")
normalize_state_name(name) ==
    StrReplace(StrReplace(StrTitle(StrStrip(name)),
                          <<" ", "&", " ">>, <<" ", "A", "n", "d", " ">>),
               <<" ", "O", "f", " ">>, <<" ", "o", "f", " ">>)

UnionTerritoriesOtherThanDelhi ==
    <<"U", "n", "i", "o", "n", " ", "T", "e", "r", "r", "i", "t", "o", "r",
    "i", "e", "s", " ", "O", "t", "h", "e", "r", " ", "T", "h", "a", "n",
    " ", "D", "e", "l", "h", "i">>

\* the keys of state_mapping_to_ut; every key maps to the same value
state_mapping_to_ut ==
    {<<"D", "a", "d", "r", "a", " ", "A", "n", "d", " ", "N", "a", "g", "a",
       "r", " ", "H", "a", "v", "e", "l", "i">>,
     <<"D", "a", "m", "a", "n", " ", "A", "n", "d", " ", "D", "i", "u">>,
     <<"D", "a", "d", "r", "a", " ", "A", "n", "d", " ", "N", "a", "g", "a",
       "r", " ", "H", "a", "v", "e", "l", "i", " ", "A", "n", "d", " ", "D",
       "a", "m", "a", "n", " ", "A", "n", "d", " ", "D", "i", "u">>,
     <<"L", "a", "d", "a", "k", "h">>,
     <<"L", "a", "k", "s", "h", "a", "d", "w", "e", "e", "p">>,
     <<"A", "n", "d", "a", "m", "a", "n", " ", "A", "n", "d", " ", "N", "i",
       "c", "o", "b", "a", "r", " ", "I", "s", "l", "a", "n", "d", "s">>,
     <<"P", "u", "d", "u", "c", "h", "e", "r", "r", "y">>,
     <<"C", "h", "a", "n", "d", "i", "g", "a", "r", "h">>}

\* the table df refers to when harmonize_state_names returns: the state
\* column is assigned on df itself, which is also the returned table
harmonize_state_names(df) ==
    IF \A i \in 1..Len(df) : "state" \in DOMAIN df[i]
    THEN [i \in 1..Len(df) |->
             LET s == normalize_state_name(df[i].state)
             IN  [df[i] EXCEPT !.state = IF s \in state_mapping_to_ut
                                          THEN UnionTerritoriesOtherThanDelhi
                                          ELSE s]]
    ELSE df

\* a helper is called on a table of the caller; `after` is what the caller's
\* table holds when the helper has returned
CallHelper(helper, table, returned, after) ==
    /\ pc = "idle"
    /\ pc' = "helped"
    /\ call' = [helper |-> helper, passed |-> table, returned |-> returned]
    /\ passed_df' = after
    /\ UNCHANGED <<quicksort_ties, breakdown, sources, risk_out, top_areas, clock,
                   cost_df, pop_sel, sessions>>

\* df = df_aqi.copy(): the helper works on a copy
AnnualStateAqiCalendar ==
    CallHelper("annual_state_aqi_calendar", aqi_df, annual_state_aqi_calendar(aqi_df), aqi_df)

\* df = mpce_df.copy()
ProjectMpce2425 ==
    CallHelper("project_mpce_2425", mpce_df, project_mpce_2425(mpce_df), mpce_df)

\* df = pop_df.copy()
PopulationByYear(year) ==
    CallHelper("get_population_by_year", pop_df, get_population_by_year(pop_df, year), pop_df)

\* df = aqi_df.copy()
HighAqiAreas(states, year, top_n) ==
    CallHelper("extract_high_aqi_areas", aqi_df, extract_high_aqi_areas(aqi_df, states, year, top_n), aqi_df)

\* df['state'] = ...: the helper assigns to the caller's table
HarmonizeStateNames(table) ==
    CallHelper("harmonize_state_names", table, harmonize_state_names(table), harmonize_state_names(table))

-----------------------------------------------------------------------------
(* The cached loaders of data_loader.py and ev_aqi_analysis.py *)

\* r comes no later than s in the order (state, area, date)
LoadedRowLe(r, s) ==
    \/ StrLt(r.state, s.state)
    \/ r.state = s.state /\ StrLt(r.area, s.area)
    \/ r.state = s.state /\ r.area = s.area /\ TsLe(r.date, s.date)

\* df.sort_values(["state", "area", "date"], ignore_index=True)
RECURSIVE SortLoaded(_)
SortLoaded(tbl) ==
    IF tbl = <<>> THEN <<>>
    ELSE LET least == CHOOSE i \in 1..Len(tbl) :
                          \A j \in 1..Len(tbl) :
                              \/ LoadedRowLe(tbl[i], tbl[j]) /\ ~LoadedRowLe(tbl[j], tbl[i])
                              \/ LoadedRowLe(tbl[i], tbl[j]) /\ i <= j
         IN  <<tbl[least]>> \o SortLoaded(SeqFilter(tbl, [j \in 1..Len(tbl) |-> j # least]))

\* body of load_aqi_table: read_csv with parse_dates, then the sort
load_aqi_table(file) ==
    SortLoaded([i \in 1..Len(file) |-> [file[i] EXCEPT !.date = ParseDates(@)]])

\* ev_aqi_analysis.normalize_state
normalize_state(name) ==
    LET s == StrReplace(StrTitle(StrStrip(name)),
                        <<" ", "&", " ">>, <<" ", "A", "n", "d", " ">>)
        islands == <<" ", "I", "s", "l", "a", "n", "d", "s">>
    IN  IF Len(s) >= Len(islands) /\ SubSeq(s, Len(s) - Len(islands) + 1, Len(s)) = islands
        THEN SubSeq(s, 1, Len(s) - Len(islands))
        ELSE s

\* body of load_aqi on the table load_aqi_table returned
load_aqi(loaded) ==
    [i \in 1..Len(loaded) |-> [loaded[i] EXCEPT !.state = normalize_state(@)]]

\* body of compute_avg_aqi on the table load_aqi returned
compute_avg_aqi(aqi, start, end) ==
    LET inside == SeqFilter(aqi, [i \in 1..Len(aqi) |->
                      TsLe(start, aqi[i].date) /\ TsLe(aqi[i].date, end)])
        keys   == SortStates({r.state : r \in Range(inside)})
    IN  [k \in 1..Len(keys) |->
            [State |-> keys[k],
             Average_AQI |-> MeanOf(SeqFilter(inside,
                 [i \in 1..Len(inside) |-> inside[i].state = keys[k]]), "aqi_value")]]

\* the functions decorated with @st.cache_data(ttl=3600); the functions of
\* ev_aqi_analysis.py are decorated with @st.cache_data, without ttl
DecoratedWithTtl == {"load_aqi_table"}

\* the entries of cache c a call fn(args) may be served from
Servable(c, fn, args) ==
    {i \in 1..Len(c) : /\ c[i].key.fn = fn
                       /\ c[i].key.args = args
                       /\ fn \in DecoratedWithTtl => clock - c[i].at < ttl}

\* cache c after the value of fn(args) is stored
Stored(c, fn, args, value) ==
    SeqFilter(c, [i \in 1..Len(c) |-> ~(c[i].key.fn = fn /\ c[i].key.args = args)])
    \o <<[key |-> [fn |-> fn, args |-> args], value |-> value, at |-> clock]>>

\* a call served from entry i of c, stored at c[i].at
Served(c, i) == [value |-> c[i].value, cache |-> c, at |-> c[i].at]

\* a call whose body ran: the decorator stores the value it returns
Computed(c, fn, args, value) ==
    [value |-> value, cache |-> Stored(c, fn, args, value), at |-> clock]

CachedLoadAqiTable(c) ==
    LET hits == Servable(c, "load_aqi_table", <<>>)
    IN  IF hits # {} THEN Served(c, CHOOSE i \in hits : TRUE)
        ELSE Computed(c, "load_aqi_table", <<>>, load_aqi_table(aqi_df))

CachedLoadAqi(c) ==
    LET hits == Servable(c, "load_aqi", <<>>)
    IN  IF hits # {} THEN Served(c, CHOOSE i \in hits : TRUE)
        ELSE LET inner == CachedLoadAqiTable(c)
             IN  Computed(inner.cache, "load_aqi", <<>>, load_aqi(inner.value))

CachedComputeAvgAqi(c, start, end) ==
    LET hits == Servable(c, "compute_avg_aqi", <<start, end>>)
    IN  IF hits # {} THEN Served(c, CHOOSE i \in hits : TRUE)
        ELSE LET inner == CachedLoadAqi(c)
             IN  Computed(inner.cache, "compute_avg_aqi", <<start, end>>,
                          compute_avg_aqi(inner.value, start, end))

\* a cached function is called on a run of a page and returns
ServeCall(fn, args, r) ==
    /\ pc = "idle"
    /\ "aqi_clean.csv" \in present
    /\ pc' = "served"
    /\ call' = [fn |-> fn, args |-> args, returned |-> r.value, stored_at |-> r.at]
    /\ cache' = r.cache
    /\ UNCHANGED <<aux, sources, risk_out, top_areas, clock, cost_df, pop_sel, procs>>

\* the EV page calls compute_avg_aqi(start, end)
ComputeAvgAqi(start, end) ==
    ServeCall("compute_avg_aqi", <<start, end>>, CachedComputeAvgAqi(cache, start, end))

\* another page calls load_aqi_table()
LoadAqiTable ==
    ServeCall("load_aqi_table", <<>>, CachedLoadAqiTable(cache))

-----------------------------------------------------------------------------
(* weekend_vs_weekday_aqi.py: the AQI bands *)

\* AQI_BANDS, in the order of the dict
AQI_BANDS ==
    <<[category |-> "Good",         range |-> <<0, 50>>],
      [category |-> "Satisfactory", range |-> <<51, 100>>],
      [category |-> "Moderate",     range |-> <<101, 200>>],
      [category |-> "Poor",         range |-> <<201, 300>>],
      [category |-> "Very Poor",    range |-> <<301, 400>>],
      [category |-> "Severe",       range |-> <<401, 500>>]>>

InBand(aqi_value, band) ==
    RLe(RInt(band.range[1]), aqi_value) /\ RLe(aqi_value, RInt(band.range[2]))

\* the category of the first band that holds the value
get_aqi_category(aqi_value) ==
    IF aqi_value = NaN THEN "N/A"
    ELSE IF \E k \in 1..Len(AQI_BANDS) : InBand(aqi_value, AQI_BANDS[k])
         THEN LET first == CHOOSE k \in 1..Len(AQI_BANDS) :
                               /\ InBand(aqi_value, AQI_BANDS[k])
                               /\ \A j \in 1..(k - 1) : ~InBand(aqi_value, AQI_BANDS[j])
              IN  AQI_BANDS[first].category
         ELSE "Beyond Scale"

\* groupby(date)["aqi_value"].mean() of the rows of one city
DailyAvgAqi(city_data) ==
    [d \in {r.date : r \in Range(city_data)} |->
        MeanOf(SeqFilter(city_data, [i \in 1..Len(city_data) |-> city_data[i].date = d]),
               "aqi_value")]

\* one row per band, in the order of AQI_BANDS, with the number of days
\* whose daily average was given the band's category; days categorised
\* "Beyond Scale" or "N/A" are filtered out
get_city_aqi_category_breakdown_data(metro_aqi_df, selected_city) ==
    LET city_data == SeqFilter(metro_aqi_df, [i \in 1..Len(metro_aqi_df) |->
                         metro_aqi_df[i].area_title = selected_city])
        daily_avg_aqi == DailyAvgAqi(city_data)
    IN  IF city_data = <<>> THEN <<>>
        ELSE [k \in 1..Len(AQI_BANDS) |->
                 [AQI_Category |-> AQI_BANDS[k].category,
                  Number_of_Days |-> Cardinality({d \in DOMAIN daily_avg_aqi :
                      get_aqi_category(daily_avg_aqi[d]) = AQI_BANDS[k].category})]]

\* the page calls the breakdown for the selected city on the prepared frame
GetCityAqiCategoryBreakdownData(metro_aqi_df, selected_city) ==
    /\ pc = "idle"
    /\ pc' = "broken_down"
    /\ call' = [selected_city |-> selected_city]
    /\ passed_df' = metro_aqi_df
    /\ breakdown' = get_city_aqi_category_breakdown_data(metro_aqi_df, selected_city)
    /\ UNCHANGED <<quicksort_ties, sources, risk_out, top_areas, clock, cost_df, pop_sel,
                   sessions>>

-----------------------------------------------------------------------------
(* Source tables *)

Years == {2024, 2025}

\* default arguments of compute_state_risk
DefaultTopStates == 10
DefaultTopAreasPerState == 4
DefaultTopGlobalAreas == 3

\* all tables of at most n rows drawn from the row set U
TablesOf(U, n) == UNION {[1..k -> U] : k \in 0..n}

AqiRow(state, area, year, v) ==
    [date |-> <<1, 1, year>>, state |-> state, area |-> area, aqi_value |-> v]

PopRow(state, year, month, n) ==
    [state |-> state, year |-> year, month |-> month, pop_total |-> n]

\* an MPCE row whose rural and urban averages grow with the level
MpceRow(state_ut, level) ==
    [State_UT |-> state_ut,
     average_mpce_2023_2024_rural |-> 1000 * level,
     percentage_increase_rural    |-> 10,
     average_mpce_2023_2024_urban |-> 2000 * level,
     percentage_increase_urban    |-> 5]

PopTotals == {1, 2}
MpceLevels == {1, 2}

NoCall == [target_year |-> 0]

\* the files of the data directory
SourceFiles == RiskFiles \cup {"health_params_clean.csv"}

\* nothing has been called: no table returned, nothing cached, no session
Idle ==
    /\ pc = "idle"
    /\ call = NoCall
    /\ risk_df = <<>>
    /\ joined_df = <<>>
    /\ areas_df = <<>>
    /\ global_areas_df = <<>>
    /\ top_areas = <<>>
    /\ clock = 0
    /\ cost_df = <<>>
    /\ pop_sel = <<>>
    /\ cache = <<>>
    /\ procs = <<>>
    /\ passed_df = <<>>
    /\ breakdown = <<>>

\* a build whose quicksort leaves rows of equal key in their input order
StableBuild == quicksort_ties = "kept"

\* all files exist; the health parameters are not read
RiskOnly ==
    /\ Idle
    /\ StableBuild
    /\ hp_df = <<>>
    /\ present = SourceFiles

\* --- three states with one reading, one population row and one MPCE row
\* each; the values vary
ThreeStates == <<(<<"a">>), (<<"b">>), (<<"c">>)>>

InitRisk ==
    /\ \E f \in [1..3 -> 1..MaxAqi] :
          aqi_df = [i \in 1..3 |-> AqiRow(ThreeStates[i], <<"x">>, 2025, f[i])]
    /\ \E g \in [1..3 -> PopTotals] :
          pop_df = [i \in 1..3 |-> PopRow(ThreeStates[i], 2025, "January", g[i])]
    /\ \E h \in [1..3 -> MpceLevels] :
          mpce_df = [i \in 1..3 |-> MpceRow(ThreeStates[i], h[i])]
    /\ RiskOnly

NextRisk ==
    \E y \in Years, n \in 0..MaxTop :
        \/ ComputeStateRisk(y, n, DefaultTopAreasPerState, DefaultTopGlobalAreas)
        \/ ComputeStateRiskRaises(y, n, DefaultTopAreasPerState, DefaultTopGlobalAreas)

SpecRisk == InitRisk /\ [][NextRisk]_vars

\* --- free AQI rows over two states, one of them with three areas; population and MPCE
\* are fixed and cover both states
AreaRows ==
    {AqiRow(<<"a">>, ar, 2025, v) : ar \in {<<"x">>, <<"Y">>, <<"z">>}, v \in {1, 2, 3}}
    \cup {AqiRow(<<"B">>, <<"x">>, 2025, v) : v \in {1, 3}}
    \cup {AqiRow(<<"a">>, <<"x">>, 2024, 3)}

InitAreas ==
    /\ aqi_df \in TablesOf(AreaRows, MaxAqiRows)
    /\ pop_df = <<PopRow(<<"a">>, 2025, "January", 1), PopRow(<<"b">>, 2025, "January", 2)>>
    /\ mpce_df = <<MpceRow(<<"a">>, 1), MpceRow(<<"b">>, 2)>>
    /\ RiskOnly

StateLists == {<<(<<"a">>)>>, <<(<<"a">>), (<<"b">>)>>}

NextAreas ==
    \E states \in StateLists, y \in Years, n \in 0..MaxTop :
        ExtractHighAqiAreas(states, y, n)

SpecAreas == InitAreas /\ [][NextAreas]_vars

\* --- the helpers called one by one on the caller's tables
Spellings ==
    {<<"a">>, <<"A", " ">>, <<"a", " ", "&", " ", "b">>, <<"x", " ", "o", "f", " ", "y">>,
     <<" ", "l", "a", "d", "a", "k", "h">>}

HelperAqiRows == {AqiRow(st, <<"x">>, 2025, v) : st \in Spellings, v \in {1, 3}}

HelperPopRows == {PopRow(st, 2025, "January", 1) : st \in Spellings}

InitHelpers ==
    /\ aqi_df \in TablesOf(HelperAqiRows, 2)
    /\ pop_df \in TablesOf(HelperPopRows, 1)
    /\ mpce_df = <<MpceRow(<<"A", " ">>, 1)>>
    /\ RiskOnly

NextHelpers ==
    \/ AnnualStateAqiCalendar
    \/ ProjectMpce2425
    \/ \E y \in Years : PopulationByYear(y)
    \/ \E states \in StateLists, y \in Years : HighAqiAreas(states, y, DefaultTopAreasPerState)
    \/ HarmonizeStateNames(aqi_df)
    \/ HarmonizeStateNames(pop_df)
    \/ HarmonizeStateNames(mpce_df)

SpecHelpers == InitHelpers /\ [][NextHelpers]_vars

\* the executive summary's call: no risk states, only the global ranking
NextGlobal ==
    \E y \in Years, k \in 0..MaxTop :
        \/ ComputeStateRisk(y, 0, 0, k)
        \/ ComputeStateRiskRaises(y, 0, 0, k)

SpecGlobal == InitAreas /\ [][NextGlobal]_vars

\* --- few rows, with state names in several spellings, years and months
JoinAqiRows ==
    {AqiRow(st, <<"x">>, y, 2) : st \in {<<"a">>, <<"A", " ">>, <<"b">>}, y \in Years}

JoinPopRows ==
    {PopRow(st, y, m, 1) : st \in {<<"a">>, <<" ", "B">>}, y \in Years,
                           m \in {"January", "february"}}

JoinMpceRows == {MpceRow(st, 1) : st \in {<<"A">>, <<"b", " ">>}}

InitJoin ==
    /\ aqi_df \in TablesOf(JoinAqiRows, MaxJoinRows)
    /\ pop_df \in TablesOf(JoinPopRows, MaxJoinRows)
    /\ mpce_df \in TablesOf(JoinMpceRows, MaxJoinRows)
    /\ RiskOnly

NextJoin ==
    \E y \in Years :
        \/ ComputeStateRisk(y, DefaultTopStates, DefaultTopAreasPerState,
                            DefaultTopGlobalAreas)
        \/ ComputeStateRiskRaises(y, DefaultTopStates, DefaultTopAreasPerState,
                                  DefaultTopGlobalAreas)

SpecJoin == InitJoin /\ [][NextJoin]_vars

\* --- three states with one reading each; any of the files may be missing
CostAqiValues == {25, 35, 45}

\* counterfactual values passed as cf_aqi
CfValues == {RInt(35), RInt(45)}

HpRow(outcome, rr, cost) ==
    [outcome |-> outcome, rr_per_10ug |-> rr, baseline_incidence |-> 100,
     cost_min |-> cost - 1, cost_mean |-> 2 * cost, cost_max |-> 3 * cost]

HpRows ==
    {HpRow(<<"a", "_", "b">>, RInt(2), 1), HpRow(<<"c">>, Rat(1, 2), 5)}

InitMissing ==
    /\ \E f \in [1..3 -> CostAqiValues] :
          aqi_df = [i \in 1..3 |-> AqiRow(ThreeStates[i], <<"x">>, 2025, f[i])]
    /\ pop_df = [i \in 1..3 |-> PopRow(ThreeStates[i], 2025, "January", i)]
    /\ mpce_df = [i \in 1..3 |-> MpceRow(ThreeStates[i], 1)]
    /\ hp_df = <<HpRow(<<"a", "_", "b">>, RInt(2), 1)>>
    /\ present \in SUBSET SourceFiles
    /\ Idle
    /\ StableBuild

NextMissing ==
    \E y \in Years, cf \in CfValues :
        \/ ComputeStateRisk(y, DefaultTopStates, DefaultTopAreasPerState,
                            DefaultTopGlobalAreas)
        \/ ComputeStateRiskRaises(y, DefaultTopStates, DefaultTopAreasPerState,
                                  DefaultTopGlobalAreas)
        \/ ComputeStateRiskFileMissing(y, DefaultTopStates, DefaultTopAreasPerState,
                                       DefaultTopGlobalAreas)
        \/ ComputeHealthCostImpacts(y, cf)
        \/ ComputeHealthCostImpactsFileMissing(y, cf)

SpecMissing == InitMissing /\ [][NextMissing]_vars

\* --- the page is rendered again and again over the same files
InitRerun ==
    /\ \E f \in [1..3 -> 1..MaxAqi] :
          aqi_df = [i \in 1..3 |-> AqiRow(ThreeStates[i], <<"x">>, 2025, f[i])]
    /\ \E g \in [1..2 -> PopTotals] :
          pop_df = [i \in 1..2 |-> PopRow(ThreeStates[i], 2025, "January", g[i])]
    /\ mpce_df = [i \in 1..3 |-> MpceRow(ThreeStates[i], i)]
    /\ RiskOnly

NextRerun ==
    \/ \E y \in Years, n \in 0..MaxTop :
          \/ ComputeStateRisk(y, n, DefaultTopAreasPerState, DefaultTopGlobalAreas)
          \/ ComputeStateRiskRaises(y, n, DefaultTopAreasPerState, DefaultTopGlobalAreas)
    \/ Rerun

SpecRerun == InitRerun /\ [][NextRerun]_vars

\* --- health-cost projection over few AQI rows, in two spellings of a state,
\* with population rows that miss a state, repeat one or stop a month early
MaxCostRows == 2

CostAqiRows ==
    {AqiRow(st, <<"x">>, 2024, v) : st \in {<<"a">>, <<"B", " ">>}, v \in CostAqiValues}
    \cup {AqiRow(<<"a">>, <<"x">>, 2025, 45)}

CostPopRows ==
    {PopRow(<<"a">>, 2024, "January", 1000), PopRow(<<"A", " ">>, 2024, "January", 3000),
     PopRow(<<"b">>, 2024, "february", 2000)}

\* every annual mean differs from every counterfactual by a multiple of 10
WholeDeltas ==
    \A i \in 1..Len(HcAqiAnn(RInt(35))) :
        LET avg == HcAqiAnn(RInt(35))[i].avg_aqi
        IN  avg[2] = 1 /\ avg[1] % 10 = 5

InitCost ==
    /\ aqi_df \in TablesOf(CostAqiRows, MaxCostRows)
    /\ WholeDeltas
    /\ pop_df \in TablesOf(CostPopRows, 2)
    /\ hp_df \in TablesOf(HpRows, 2)
    /\ mpce_df = <<>>
    /\ present = SourceFiles
    /\ Idle
    /\ StableBuild

NextCost == \E y \in Years, cf \in CfValues : ComputeHealthCostImpacts(y, cf)

SpecCost == InitCost /\ [][NextCost]_vars

\* --- both pipelines called on every run of the page while time passes and
\* the AQI snapshot is replaced
SnapshotOf(v) ==
    [i \in 1..3 |-> AqiRow(ThreeStates[i], <<"x">>, 2025, IF i = 1 THEN v ELSE 35)]

Delays == {1800, 3600}

InitRefresh ==
    /\ \E v \in CostAqiValues : aqi_df = SnapshotOf(v)
    /\ pop_df = [i \in 1..3 |-> PopRow(ThreeStates[i], 2025, "January", i)]
    /\ mpce_df = [i \in 1..3 |-> MpceRow(ThreeStates[i], 1)]
    /\ hp_df = <<HpRow(<<"a", "_", "b">>, RInt(2), 1)>>
    /\ present = SourceFiles
    /\ Idle
    /\ StableBuild

NextRefresh ==
    \/ \E y \in Years :
          \/ ComputeStateRisk(y, DefaultTopStates, DefaultTopAreasPerState,
                              DefaultTopGlobalAreas)
          \/ ComputeStateRiskRaises(y, DefaultTopStates, DefaultTopAreasPerState,
                                    DefaultTopGlobalAreas)
          \/ ComputeHealthCostImpacts(y, RInt(35))
    \/ Rerun
    \/ \E d \in Delays : Tick(d)
    \/ \E v \in CostAqiValues : RefreshFiles(SnapshotOf(v))

SpecRefresh == InitRefresh /\ [][NextRefresh]_vars

\* --- sessions that call the cached loader or the risk pipeline side by side
MaxSessions == 2

Timestamp(y, m, d) == [year |-> y, month |-> m, day |-> d]

\* (start_ts, end_ts, pop_year) of the loader calls
LoaderArgs ==
    {<<Timestamp(2025, 1, 1), Timestamp(2025, 1, 31), 2025>>,
     <<Timestamp(2025, 1, 1), Timestamp(2025, 12, 31), 2025>>}

RiskArgs ==
    {[target_year |-> y, top_states |-> DefaultTopStates,
      top_areas_per_state |-> DefaultTopAreasPerState,
      top_global_areas |-> DefaultTopGlobalAreas] : y \in Years}

SessionAqiRows ==
    {[date |-> <<m, 1, 2025>>, state |-> st, area |-> <<"x">>, aqi_value |-> v] :
        m \in {1, 2}, st \in {<<"a">>, <<"b">>}, v \in {1, 3}}

InitSessions ==
    /\ aqi_df \in [1..2 -> SessionAqiRows]
    /\ pop_df = <<PopRow(<<"b">>, 2025, "January", 2), PopRow(<<"a">>, 2025, "January", 1)>>
    /\ mpce_df = <<MpceRow(<<"a">>, 1), MpceRow(<<"b">>, 2)>>
    /\ RiskOnly

NextSessions ==
    \/ /\ Len(procs) < MaxSessions
       /\ \/ \E args \in LoaderArgs : StartSession("get_state_aqi_metrics", args)
          \/ \E args \in RiskArgs : StartSession("compute_state_risk", args)
    \/ \E p \in DOMAIN procs :
          \/ CacheHit(p)
          \/ CacheMiss(p)
          \/ ReadAqi(p)
          \/ ReadPopAndMerge(p)
          \/ CacheStore(p)
          \/ SessionStateRisk(p)
          \/ SessionStateRiskRaises(p)

SpecSessions == InitSessions /\ [][NextSessions]_vars

\* --- the breakdown called on prepared frames of readings
Cities == {"Delhi", "Mumbai"}

\* readings at the edges of the first two bands and beyond the scale
BandReadings == {50, 51, 600}

MetroRows ==
    {[date |-> Timestamp(2025, 1, d), area_title |-> city, aqi_value |-> v] :
        d \in {1, 2}, city \in Cities, v \in BandReadings}

InitBands ==
    /\ aqi_df = <<>>
    /\ pop_df = <<>>
    /\ mpce_df = <<>>
    /\ RiskOnly

NextBands ==
    \E metro_aqi_df \in TablesOf(MetroRows, 3), city \in Cities :
        GetCityAqiCategoryBreakdownData(metro_aqi_df, city)

SpecBands == InitBands /\ [][NextBands]_vars

\* --- the EV page and a page that loads the AQI table, run again and again
\* while time passes and the AQI snapshot is replaced
AvgArgs ==
    {<<Timestamp(2025, 1, 1), Timestamp(2025, 12, 31)>>,
     <<Timestamp(2025, 1, 1), Timestamp(2025, 6, 30)>>}

InitExpiry ==
    /\ \E v \in CostAqiValues : aqi_df = SnapshotOf(v)
    /\ pop_df = <<>>
    /\ mpce_df = <<>>
    /\ RiskOnly

NextExpiry ==
    \/ \E args \in AvgArgs : ComputeAvgAqi(args[1], args[2])
    \/ LoadAqiTable
    \/ Rerun
    \/ \E d \in Delays : Tick(d)
    \/ \E v \in CostAqiValues : RefreshFiles(SnapshotOf(v))

SpecExpiry == InitExpiry /\ [][NextExpiry]_vars

\* --- monthly population rows of two states, in two spellings, two years
\* and three months
MaxPopRows == 3

MonthlyPopRows ==
    {PopRow(st, 2025, m, n) : st \in {<<"a">>, <<"B", " ">>},
                              m \in {"January", "february", "March"}, n \in PopTotals}
    \cup {PopRow(<<"a">>, 2024, "december", 1)}

InitPop ==
    /\ pop_df \in TablesOf(MonthlyPopRows, MaxPopRows)
    /\ aqi_df = <<>>
    /\ mpce_df = <<>>
    /\ RiskOnly

NextPop == \E y \in Years : GetPopulationByYear(y)

SpecPop == InitPop /\ [][NextPop]_vars

\* --- the two population paths over the same monthly population table
InitPaths ==
    /\ pop_df \in TablesOf(MonthlyPopRows, 2)
    /\ aqi_df = <<AqiRow(<<"a">>, <<"x">>, 2025, 35), AqiRow(<<"B", " ">>, <<"x">>, 2025, 45),
                  AqiRow(<<"a">>, <<"x">>, 2024, 25)>>
    /\ mpce_df = <<>>
    /\ hp_df = <<HpRow(<<"c">>, RInt(2), 1)>>
    /\ present = SourceFiles
    /\ Idle
    /\ StableBuild

NextPaths ==
    \/ \E y \in Years :
          \/ GetPopulationByYear(y)
          \/ ComputeHealthCostImpacts(y, RInt(35))
    \/ Rerun

SpecPaths == InitPaths /\ [][NextPaths]_vars

\* --- both pipelines over AQI tables that spell a state in two ways
SpelledAqiRows ==
    {AqiRow(st, <<"x">>, 2025, v) : st \in {<<"a">>, <<"A", " ">>, <<"b">>}, v \in {25, 45}}

InitSpelled ==
    /\ aqi_df \in TablesOf(SpelledAqiRows, 3)
    /\ WholeDeltas
    /\ pop_df = <<PopRow(<<"a">>, 2025, "January", 1000), PopRow(<<"b">>, 2025, "January", 2000)>>
    /\ mpce_df = <<MpceRow(<<"a">>, 1), MpceRow(<<"b">>, 2)>>
    /\ hp_df = <<HpRow(<<"c">>, RInt(2), 1)>>
    /\ present = SourceFiles
    /\ Idle
    /\ StableBuild

NextSpelled ==
    \/ ComputeStateRisk(2025, DefaultTopStates, DefaultTopAreasPerState, DefaultTopGlobalAreas)
    \/ ComputeStateRiskRaises(2025, DefaultTopStates, DefaultTopAreasPerState, DefaultTopGlobalAreas)
    \/ ComputeHealthCostImpacts(2025, RInt(35))
    \/ Rerun

SpecSpelled == InitSpelled /\ [][NextSpelled]_vars

\* --- three states with readings and population in both years (or the
\* population of 2025 only); the expenditure levels vary
InitYears ==
    /\ \E f \in [1..3 -> {1, 3}] :
          aqi_df = [i \in 1..3 |-> AqiRow(ThreeStates[i], <<"x">>, 2025, f[i])]
                   \o [i \in 1..3 |-> AqiRow(ThreeStates[i], <<"x">>, 2024, 4 - i)]
    /\ \E both \in BOOLEAN :
          pop_df = [i \in 1..3 |-> PopRow(ThreeStates[i], 2025, "January", i)]
                   \o (IF both
                       THEN [i \in 1..3 |-> PopRow(ThreeStates[i], 2024, "march", 4 - i)]
                       ELSE <<>>)
    /\ \E h \in [1..3 -> MpceLevels] :
          mpce_df = [i \in 1..3 |-> MpceRow(ThreeStates[i], h[i])]
    /\ RiskOnly

NextYears ==
    \/ \E y \in Years :
          \/ ComputeStateRisk(y, DefaultTopStates, DefaultTopAreasPerState,
                              DefaultTopGlobalAreas)
          \/ ComputeStateRiskRaises(y, DefaultTopStates, DefaultTopAreasPerState,
                                    DefaultTopGlobalAreas)
    \/ Rerun

SpecYears == InitYears /\ [][NextYears]_vars

\* --- three states with few distinct values, so that scores tie, on either
\* kind of build
QuicksortTies == {"kept", "reversed"}

InitTies ==
    /\ \E f \in [1..3 -> {1, 2}] :
          aqi_df = [i \in 1..3 |-> AqiRow(ThreeStates[i], <<"x">>, 2025, f[i])]
    /\ \E g \in [1..3 -> PopTotals] :
          pop_df = [i \in 1..3 |-> PopRow(ThreeStates[i], 2025, "January", g[i])]
    /\ mpce_df = [i \in 1..3 |-> MpceRow(ThreeStates[i], 1)]
    /\ hp_df = <<>>
    /\ present = SourceFiles
    /\ quicksort_ties \in QuicksortTies
    /\ Idle

NextTies ==
    \E y \in Years :
        \/ ComputeStateRisk(y, DefaultTopStates, DefaultTopAreasPerState,
                            DefaultTopGlobalAreas)
        \/ ComputeStateRiskRaises(y, DefaultTopStates, DefaultTopAreasPerState,
                                  DefaultTopGlobalAreas)

SpecTies == InitTies /\ [][NextTies]_vars

-----------------------------------------------------------------------------
(* Vocabulary of the properties, computed from the source tables alone *)

InUnit(q) == RLe(RInt(0), q) /\ RLe(q, RInt(1))

Rows(tbl) == 1..Len(tbl)

\* the readings of one (state, area) of one year, names lower-cased and stripped
ReadingsOf(st, ar, y) ==
    {i \in Rows(aqi_df) : /\ LowerStrip(aqi_df[i].state) = st
                          /\ LowerStrip(aqi_df[i].area) = ar
                          /\ aqi_df[i].date[3] = y}

RECURSIVE SumReadings(_)
SumReadings(I) ==
    IF I = {} THEN 0
    ELSE LET i == CHOOSE n \in I : TRUE
         IN  aqi_df[i].aqi_value + SumReadings(I \ {i})

PairMean(st, ar, y) ==
    Rat(SumReadings(ReadingsOf(st, ar, y)), Cardinality(ReadingsOf(st, ar, y)))

\* the (state, area) pairs that have a reading in year y
PairsOf(y) ==
    {<<LowerStrip(aqi_df[i].state), LowerStrip(aqi_df[i].area)>> :
        i \in {n \in Rows(aqi_df) : aqi_df[n].date[3] = y}}

PairsIn(tbl) == {<<tbl[i].state, tbl[i].area>> : i \in Rows(tbl)}

RowsOfState(tbl, st) == {i \in Rows(tbl) : tbl[i].state = st}

\* every row carries the year's mean of its (state, area)
MeansAreRight(tbl, y) ==
    \A i \in Rows(tbl) :
        /\ <<tbl[i].state, tbl[i].area>> \in PairsOf(y)
        /\ tbl[i].avg_aqi = PairMean(tbl[i].state, tbl[i].area, y)

-----------------------------------------------------------------------------
(* C1 *)

\* C1: every row of a returned risk table has
\* risk_score = 0.7*aqi_n + 0.2*pop_n + 0.1*(1 - mpce_n), with aqi_n, pop_n
\* and mpce_n in [0,1], and so 0 <= risk_score <= 1.
C1_RiskScoreInUnit ==
    pc = "returned" =>
        \A i \in Rows(risk_df) :
            LET r == risk_df[i]
            IN  /\ InUnit(r.aqi_n) /\ InUnit(r.pop_n) /\ InUnit(r.mpce_n)
                /\ r.risk_score =
                       RAdd(RAdd(RMul(Rat(7, 10), r.aqi_n), RMul(Rat(2, 10), r.pop_n)),
                            RMul(Rat(1, 10), RSub(RInt(1), r.mpce_n)))
                /\ InUnit(r.risk_score)

\* a returned table with a row whose three normalized values are 1/2, 1 and
\* 0 and whose score lies strictly between 0 and 1
C1_Witness ==
    /\ pc = "returned"
    /\ \E i \in Rows(risk_df) :
          /\ risk_df[i].aqi_n = Rat(1, 2)
          /\ risk_df[i].pop_n = RInt(1)
          /\ risk_df[i].mpce_n = RInt(0)
          /\ risk_df[i].risk_score = Rat(65, 100)

-----------------------------------------------------------------------------
(* C2 *)

ScaledColumns ==
    {<<"avg_aqi", "aqi_n">>, <<"population", "pop_n">>, <<"mpce_2024_25", "mpce_n">>}

ColMin(tbl, col) == RMinOf({tbl[i][col] : i \in Rows(tbl)})
ColMax(tbl, col) == RMaxOf({tbl[i][col] : i \in Rows(tbl)})

\* C2 as stated: in every non-empty joined set and for each of the three
\* columns, a state holding the column's minimum gets 0.0 and a state
\* holding the column's maximum gets 1.0.
C2_MinZeroMaxOne ==
    pc = "returned" =>
        \A c \in ScaledColumns : \A i \in Rows(risk_df) :
            /\ risk_df[i][c[1]] = ColMin(risk_df, c[1]) => risk_df[i][c[2]] = RInt(0)
            /\ risk_df[i][c[1]] = ColMax(risk_df, c[1]) => risk_df[i][c[2]] = RInt(1)

\* C2 amended: a state holding the column's minimum gets 0.0; a state
\* holding the column's maximum gets 1.0 when the column's maximum exceeds
\* its minimum; when all joined states hold the same value (a single state
\* included) every state gets 0.0 in that column.
C2_MinZeroMaxOneUnlessConstant ==
    pc = "returned" =>
        \A c \in ScaledColumns : \A i \in Rows(risk_df) :
            LET lo == ColMin(risk_df, c[1])
                hi == ColMax(risk_df, c[1])
            IN  /\ risk_df[i][c[1]] = lo => risk_df[i][c[2]] = RInt(0)
                /\ (risk_df[i][c[1]] = hi /\ lo # hi) => risk_df[i][c[2]] = RInt(1)
                /\ lo = hi => risk_df[i][c[2]] = RInt(0)

\* a returned table where avg_aqi has three different values (its minimum
\* is scaled to 0, its maximum to 1) and population is constant (scaled to 0)
C2_Witness ==
    /\ pc = "returned"
    /\ Cardinality({risk_df[i].avg_aqi : i \in Rows(risk_df)}) = 3
    /\ \E i, j \in Rows(risk_df) :
          /\ risk_df[i].avg_aqi = ColMin(risk_df, "avg_aqi") /\ risk_df[i].aqi_n = RInt(0)
          /\ risk_df[j].avg_aqi = ColMax(risk_df, "avg_aqi") /\ risk_df[j].aqi_n = RInt(1)
    /\ ColMin(risk_df, "population") = ColMax(risk_df, "population")
    /\ \A i \in Rows(risk_df) : risk_df[i].pop_n = RInt(0)

-----------------------------------------------------------------------------
(* C3 *)

\* C3: the third returned table holds at most top_global_areas rows in
\* all, and they are the (state, area) pairs with the highest average AQI
\* of the target year across all states together.
C3_GlobalTopK ==
    pc = "returned" =>
        /\ Len(global_areas_df) <= call.top_global_areas
        /\ MeansAreRight(global_areas_df, call.target_year)
        /\ \A i \in Rows(global_areas_df) :
              \A p \in PairsOf(call.target_year) \ PairsIn(global_areas_df) :
                  RLe(PairMean(p[1], p[2], call.target_year), global_areas_df[i].avg_aqi)

-----------------------------------------------------------------------------
(* C4 *)

\* C4: when no state is common to the target year's AQI, the target year's
\* population and the MPCE table, compute_state_risk returns an empty risk
\* table and does not raise.
C4_EmptyJoinReturnsEmpty ==
    (pc \in {"returned", "raised"} /\ joined_df = <<>>) =>
        (pc = "returned" /\ risk_df = <<>>)

-----------------------------------------------------------------------------
(* C5 *)

HasAqi(st, y) ==
    \E i \in Rows(aqi_df) : LowerStrip(aqi_df[i].state) = st /\ aqi_df[i].date[3] = y

HasPopulation(st, y) ==
    \E i \in Rows(get_population_by_year(pop_df, y)) :
        get_population_by_year(pop_df, y)[i].state = st

HasMpce(st) == \E i \in Rows(mpce_df) : LowerStrip(mpce_df[i].State_UT) = st

KnownStates ==
    {LowerStrip(aqi_df[i].state) : i \in Rows(aqi_df)}
    \cup {LowerStrip(pop_df[i].state) : i \in Rows(pop_df)}
    \cup {LowerStrip(mpce_df[i].State_UT) : i \in Rows(mpce_df)}

\* C5: a state, matched on its lower-cased and stripped name, is in the
\* returned risk table exactly when it has an AQI record of the target
\* year, a resolved population of the target year and an MPCE value.
C5_JoinedExactlyWhenAllThree ==
    pc = "returned" =>
        \A st \in KnownStates :
            (\E i \in Rows(risk_df) : LowerStrip(risk_df[i].state) = st)
            <=> (/\ HasAqi(st, call.target_year)
                 /\ HasPopulation(st, call.target_year)
                 /\ HasMpce(st))

-----------------------------------------------------------------------------
(* C6 *)

\* C6: the rows of the returned risk table are in non-increasing order of
\* risk_score.
C6_RiskSortedDescending ==
    pc = "returned" =>
        \A i, j \in Rows(risk_df) :
            i < j => RLe(risk_df[j].risk_score, risk_df[i].risk_score)

\* three rows with strictly decreasing scores, in the reverse of the order
\* in which the join produced them
C6_Witness ==
    /\ pc = "returned"
    /\ Len(risk_df) = 3
    /\ RLt(risk_df[2].risk_score, risk_df[1].risk_score)
    /\ RLt(risk_df[3].risk_score, risk_df[2].risk_score)
    /\ StateColumn(risk_df) = Reverse(StateColumn(joined_df))

-----------------------------------------------------------------------------
(* C7 *)

\* row r is at least row q in avg_aqi and population and at most q in MPCE
Dominates(r, q) ==
    /\ RLe(q.avg_aqi, r.avg_aqi)
    /\ RLe(q.population, r.population)
    /\ RLe(r.mpce_2024_25, q.mpce_2024_25)

SameDrivers(r, q) ==
    /\ r.avg_aqi = q.avg_aqi
    /\ r.population = q.population
    /\ r.mpce_2024_25 = q.mpce_2024_25

\* C7: a state that has the highest avg_aqi, the highest population and the
\* lowest mpce_2024_25 of the joined states (no other state equalling it in
\* all three) is the first row of the risk table; and a state that is >=
\* another in avg_aqi and population and <= in MPCE never has a lower
\* risk_score.
C7_DominantStateFirst ==
    pc = "returned" =>
        /\ \A i \in Rows(risk_df) :
              (\A j \in Rows(risk_df) :
                  /\ Dominates(risk_df[i], risk_df[j])
                  /\ (risk_df[j].state # risk_df[i].state
                        => ~SameDrivers(risk_df[i], risk_df[j])))
              => risk_df[1].state = risk_df[i].state
        /\ \A i, j \in Rows(risk_df) :
              Dominates(risk_df[i], risk_df[j])
              => RLe(risk_df[j].risk_score, risk_df[i].risk_score)

\* the last state of the joined order dominates the other two, which differ
\* from it and are not ordered among themselves, and it is returned first
C7_Witness ==
    /\ pc = "returned"
    /\ Len(risk_df) = 3
    /\ risk_df[1].state = joined_df[3].state
    /\ \A j \in 2..3 :
          /\ Dominates(risk_df[1], risk_df[j])
          /\ ~SameDrivers(risk_df[1], risk_df[j])
    /\ ~Dominates(risk_df[2], risk_df[3])
    /\ ~Dominates(risk_df[3], risk_df[2])

-----------------------------------------------------------------------------
(* C8 *)

\* C8: every row of the second returned table belongs to a state among the
\* first top_states rows of the risk table.
C8_AreasOnlyOfTopStates ==
    pc = "returned" =>
        \A i \in Rows(areas_df) :
            \E k \in Rows(risk_df) :
                /\ k <= call.top_states
                /\ risk_df[k].state = areas_df[i].state

\* three scored states, top_states = 1, and the areas of the first one only
C8_Witness ==
    /\ pc = "returned"
    /\ Len(risk_df) = 3
    /\ call.top_states = 1
    /\ Len(areas_df) = 1
    /\ areas_df[1].state = risk_df[1].state
    /\ Cardinality({p[1] : p \in PairsOf(call.target_year)}) = 3

-----------------------------------------------------------------------------
(* C9 *)

\* C9: extract_high_aqi_areas returns no more than top_n rows for any
\* single state.
C9_AtMostTopNPerState ==
    pc = "extracted" =>
        \A i \in Rows(top_areas) :
            Cardinality(RowsOfState(top_areas, top_areas[i].state)) <= call.top_n

\* top_n = 1, and a returned state that has three areas in the year
C9_Witness ==
    /\ pc = "extracted"
    /\ call.top_n = 1
    /\ \E i \in Rows(top_areas) :
          Cardinality({p \in PairsOf(call.year) : p[1] = top_areas[i].state}) = 3

-----------------------------------------------------------------------------
(* C10 *)

\* C10: for each state of the result of extract_high_aqi_areas the rows are
\* in non-increasing avg_aqi order and are the state's highest-average
\* areas of the year: no area of the state left out has a strictly higher
\* average than an area returned.
C10_TopAreasSortedAndHighest ==
    pc = "extracted" =>
        /\ MeansAreRight(top_areas, call.year)
        /\ \A i, j \in Rows(top_areas) :
              (i < j /\ top_areas[i].state = top_areas[j].state)
              => RLe(top_areas[j].avg_aqi, top_areas[i].avg_aqi)
        /\ \A i \in Rows(top_areas) :
              \A p \in PairsOf(call.year) \ PairsIn(top_areas) :
                  p[1] = top_areas[i].state
                  => RLe(PairMean(p[1], p[2], call.year), top_areas[i].avg_aqi)

\* top_n = 2 and a state with three areas: the two returned are in strictly
\* decreasing order, the one left out is strictly lower and sorts first by name
C10_Witness ==
    /\ pc = "extracted"
    /\ call.top_n = 2
    /\ \E i \in Rows(top_areas) :
          /\ i + 1 \in Rows(top_areas)
          /\ top_areas[i].state = top_areas[i + 1].state
          /\ RLt(top_areas[i + 1].avg_aqi, top_areas[i].avg_aqi)
          /\ \E p \in PairsOf(call.year) \ PairsIn(top_areas) :
                /\ p[1] = top_areas[i].state
                /\ RLt(PairMean(p[1], p[2], call.year), top_areas[i + 1].avg_aqi)
                /\ StrLt(p[2], top_areas[i].area)

-----------------------------------------------------------------------------
(* C11 *)

\* C11: a call of compute_state_risk made while aqi_clean.csv,
\* population_clean.csv or mpce_clean.csv is missing ends in an exception and
\* returns none of its three tables; a call of compute_health_cost_impacts
\* made while health_params_clean.csv, population_clean.csv or aqi_clean.csv
\* is missing ends in an exception and returns no table.
C11_MissingFileRaises ==
    /\ (/\ pc \in {"returned", "raised"}
        /\ ~({"aqi_clean.csv", "population_clean.csv", "mpce_clean.csv"}
               \subseteq present))
       => /\ pc = "raised"
          /\ risk_df = <<>> /\ areas_df = <<>> /\ global_areas_df = <<>>
    /\ (/\ pc \in {"costed", "cost_raised"}
        /\ ~({"health_params_clean.csv", "population_clean.csv", "aqi_clean.csv"}
               \subseteq present))
       => /\ pc = "cost_raised"
          /\ cost_df = <<>>

\* compute_state_risk has raised with only the expenditure file missing,
\* over tables that would have given a non-empty result
C11_Witness ==
    /\ pc = "raised"
    /\ present = SourceFiles \ {"mpce_clean.csv"}
    /\ call.target_year = 2025
    /\ risk_df = <<>>

-----------------------------------------------------------------------------
(* C12 *)

SameRiskArgs(c, d) ==
    /\ c.target_year = d.target_year
    /\ c.top_states = d.top_states
    /\ c.top_areas_per_state = d.top_areas_per_state
    /\ c.top_global_areas = d.top_global_areas

-----------------------------------------------------------------------------
(* C13 *)

\* the normalised states that have a reading in year y
CostStates(y) ==
    {LowerStrip(aqi_df[i].state) : i \in {n \in Rows(aqi_df) : aqi_df[n].date[3] = y}}

\* the outcome name as the result table shows it
Displayed(outcome) == StrTitle(UnderscoreToSpace(outcome))

\* row r of the result carries the reference row h
OfOutcomeRow(r, h) ==
    /\ r.outcome = Displayed(h.outcome)
    /\ r.rr_per_10ug = h.rr_per_10ug
    /\ r.baseline_incidence = h.baseline_incidence
    /\ <<r.cost_min, r.cost_mean, r.cost_max>> = <<h.cost_min, h.cost_mean, h.cost_max>>

\* the rows of the result for state st (normalised) and reference row k
PairRows(st, k) ==
    {i \in Rows(cost_df) : /\ cost_df[i].state = StrTitle(st)
                           /\ OfOutcomeRow(cost_df[i], hp_df[k])}

\* C13: the table returned by compute_health_cost_impacts has as many rows
\* as (normalised states with a reading in the target year) times (rows of
\* the health-parameters table), and every (state, reference row) pair is in
\* it once (as often as that reference row is in the reference table).
C13_OneRowPerStateOutcome ==
    pc = "costed" =>
        /\ Len(cost_df) = Cardinality(CostStates(call.target_year)) * Len(hp_df)
        /\ \A st \in CostStates(call.target_year) : \A k \in Rows(hp_df) :
              Cardinality(PairRows(st, k))
                  = Cardinality({n \in Rows(hp_df) : hp_df[n] = hp_df[k]})

-----------------------------------------------------------------------------
(* C14 *)

IsZero(q) == q = RInt(0)

\* q is a number and is not negative
NonNegative(q) == q # NaN /\ RLe(RInt(0), q)

\* C14 as stated: every row of the result whose avg_aqi equals cf_aqi has
\* rr_total = 1, paf = 0 and attr_cases = 0.
C14_ZeroDeltaZeroCases ==
    pc = "costed" =>
        \A i \in Rows(cost_df) :
            cost_df[i].avg_aqi = call.cf_aqi
            => /\ IsZero(cost_df[i].delta_aqi)
               /\ cost_df[i].rr_total = RInt(1)
               /\ IsZero(cost_df[i].paf)
               /\ IsZero(cost_df[i].attr_cases)

\* C14 amended: every row of the result whose avg_aqi equals cf_aqi has
\* rr_total = 1 and paf = 0; its attr_cases is 0 when the row has a
\* population and is null when the row's population is null.
C14_ZeroDeltaZeroCasesUnlessNoPopulation ==
    pc = "costed" =>
        \A i \in Rows(cost_df) :
            cost_df[i].avg_aqi = call.cf_aqi
            => /\ IsZero(cost_df[i].delta_aqi)
               /\ cost_df[i].rr_total = RInt(1)
               /\ IsZero(cost_df[i].paf)
               /\ cost_df[i].population # NaN => IsZero(cost_df[i].attr_cases)
               /\ cost_df[i].population = NaN => cost_df[i].attr_cases = NaN

\* a row at the counterfactual with a relative risk of 2 per 10 units and a
\* population, and a row at the counterfactual without a population
C14_Witness ==
    /\ pc = "costed"
    /\ \E i, j \in Rows(cost_df) :
          /\ cost_df[i].avg_aqi = call.cf_aqi
          /\ cost_df[i].rr_per_10ug = RInt(2)
          /\ cost_df[i].population = RInt(1000)
          /\ IsZero(cost_df[i].attr_cases)
          /\ cost_df[j].avg_aqi = call.cf_aqi
          /\ cost_df[j].population = NaN
          /\ cost_df[j].attr_cases = NaN

-----------------------------------------------------------------------------
(* C15 *)

\* C15 as stated: every row of the result with delta_aqi >= 0 and
\* rr_per_10ug > 1 has attr_cases >= 0.
C15_CasesNonNegative ==
    pc = "costed" =>
        \A i \in Rows(cost_df) :
            (NonNegative(cost_df[i].delta_aqi) /\ RLt(RInt(1), cost_df[i].rr_per_10ug))
            => NonNegative(cost_df[i].attr_cases)

\* C15 amended: a row of the result with delta_aqi >= 0 and rr_per_10ug > 1
\* has attr_cases >= 0 when its population is a non-negative number and its
\* baseline_incidence is not negative; its attr_cases is null when its
\* population is null.
C15_CasesNonNegativeUnlessNoPopulation ==
    pc = "costed" =>
        \A i \in Rows(cost_df) :
            (NonNegative(cost_df[i].delta_aqi) /\ RLt(RInt(1), cost_df[i].rr_per_10ug))
            => /\ (NonNegative(cost_df[i].population)
                   /\ cost_df[i].baseline_incidence >= 0)
                  => NonNegative(cost_df[i].attr_cases)
               /\ cost_df[i].population = NaN => cost_df[i].attr_cases = NaN

\* a row above the counterfactual with a relative risk above 1 and strictly
\* positive attributable cases, next to a row of a protective outcome
C15_Witness ==
    /\ pc = "costed"
    /\ \E i, j \in Rows(cost_df) :
          /\ RLt(RInt(0), cost_df[i].delta_aqi)
          /\ RLt(RInt(1), cost_df[i].rr_per_10ug)
          /\ cost_df[i].attr_cases # NaN
          /\ RLt(RInt(0), cost_df[i].attr_cases)
          /\ cost_df[j].state = cost_df[i].state
          /\ RLt(cost_df[j].rr_per_10ug, RInt(1))
          /\ RLt(cost_df[j].attr_cases, RInt(0))

-----------------------------------------------------------------------------
(* C16 *)

\* the rows of the population table of state st (normalised) and year y
PopRowsOf(st, y) ==
    {i \in Rows(pop_df) : LowerStrip(pop_df[i].state) = st /\ pop_df[i].year = y}

\* C16: for a state with a reading in the target year and no population row
\* of that year, the call returns, and the result holds one row per row of
\* the health-parameters table for it, each with population, attr_cases and
\* the three cost totals null.
C16_NoPopulationKeepsNullRows ==
    pc \in {"costed", "cost_raised"} =>
        \A st \in CostStates(call.target_year) :
            PopRowsOf(st, call.target_year) = {}
            => /\ pc = "costed"
               /\ Cardinality({i \in Rows(cost_df) : cost_df[i].state = StrTitle(st)})
                      = Len(hp_df)
               /\ \A i \in Rows(cost_df) :
                     cost_df[i].state = StrTitle(st)
                     => /\ cost_df[i].population = NaN
                        /\ cost_df[i].attr_cases = NaN
                        /\ cost_df[i].cost_min_total = NaN
                        /\ cost_df[i].cost_mean_total = NaN
                        /\ cost_df[i].cost_max_total = NaN

\* two outcomes, a state with a population and a state without one
C16_Witness ==
    /\ pc = "costed"
    /\ Len(hp_df) = 2
    /\ \E st \in CostStates(call.target_year) :
          /\ PopRowsOf(st, call.target_year) = {}
          /\ \E i \in Rows(cost_df) : cost_df[i].state = StrTitle(st)
    /\ \E i \in Rows(cost_df) : cost_df[i].population # NaN

-----------------------------------------------------------------------------
(* C17 *)

\* C17: in every row of the result the three per-person costs are the
\* cost_min, cost_mean and cost_max of the reference row of the row's
\* outcome, whatever the state, its AQI, the counterfactual and the population.
C17_PersonCostIsUnitCost ==
    pc = "costed" =>
        \A i \in Rows(cost_df) :
            /\ \E k \in Rows(hp_df) : Displayed(hp_df[k].outcome) = cost_df[i].outcome
            /\ \A k \in Rows(hp_df) :
                  Displayed(hp_df[k].outcome) = cost_df[i].outcome
                  => /\ cost_df[i].cost_min_person = RInt(hp_df[k].cost_min)
                     /\ cost_df[i].cost_mean_person = RInt(hp_df[k].cost_mean)
                     /\ cost_df[i].cost_max_person = RInt(hp_df[k].cost_max)

\* the same outcome for two states that differ in AQI and population: the
\* totals differ, the per-person costs do not
C17_Witness ==
    /\ pc = "costed"
    /\ \E i, j \in Rows(cost_df) :
          /\ cost_df[i].outcome = cost_df[j].outcome
          /\ cost_df[i].state # cost_df[j].state
          /\ cost_df[i].avg_aqi # cost_df[j].avg_aqi
          /\ cost_df[i].population # cost_df[j].population
          /\ cost_df[i].cost_mean_total # cost_df[j].cost_mean_total
          /\ cost_df[i].cost_mean_person = cost_df[j].cost_mean_person

-----------------------------------------------------------------------------
(* C18 *)

\* C18: a call of compute_state_risk, or of compute_health_cost_impacts,
\* that follows a returned call of the same function with the same arguments
\* less than ttl seconds later returns the tables of that call, whatever
\* has become of the source files in between.
C18_SecondCallReturnsStored ==
    [][/\ (/\ pc = "idle"
           /\ "ended" \in DOMAIN call
           /\ call.ended = "returned"
           /\ pc' \in {"returned", "raised"}
           /\ SameRiskArgs(call', call)
           /\ call'.at - call.at < ttl)
          => /\ pc' = "returned"
             /\ risk_df' = risk_df
             /\ areas_df' = areas_df
             /\ global_areas_df' = global_areas_df
       /\ (/\ pc = "idle"
           /\ "ended" \in DOMAIN call
           /\ call.ended = "costed"
           /\ pc' \in {"costed", "cost_raised"}
           /\ call'.target_year = call.target_year
           /\ call'.cf_aqi = call.cf_aqi
           /\ call'.at - call.at < ttl)
          => /\ pc' = "costed"
             /\ cost_df' = cost_df]_vars

-----------------------------------------------------------------------------
(* C19 *)

\* the rows a single call of get_state_aqi_metrics gives: one row for every
\* population row of pop_year whose state has a reading in the range, in the
\* order of the population table, with the mean of those readings
InRange(i, args) ==
    /\ TsLe(args[1], ParseDates(aqi_df[i].date))
    /\ TsLe(ParseDates(aqi_df[i].date), args[2])

IsLoaderResult(tbl, args) ==
    LET kept == SeqFilter(pop_df, [i \in Rows(pop_df) |->
                    /\ pop_df[i].year = args[3]
                    /\ \E n \in Rows(aqi_df) :
                          InRange(n, args) /\ aqi_df[n].state = pop_df[i].state])
    IN  /\ Len(tbl) = Len(kept)
        /\ \A i \in Rows(tbl) :
              LET I == {n \in Rows(aqi_df) :
                           InRange(n, args) /\ aqi_df[n].state = kept[i].state}
              IN  /\ tbl[i].State = kept[i].state
                  /\ tbl[i].Population = kept[i].pop_total
                  /\ tbl[i].Average_AQI = Rat(SumReadings(I), Cardinality(I))

\* what a single call of session p's function with its arguments gives
IsSequentialOutcome(p) ==
    IF procs[p].fn = "get_state_aqi_metrics"
    THEN procs[p].pc = "done" /\ IsLoaderResult(procs[p].result, procs[p].args)
    ELSE IF ScalerRaises(JoinedDrivers(procs[p].args.target_year))
         THEN procs[p].pc = "raised"
         ELSE procs[p].pc = "done" /\ procs[p].result = StateRiskTables(procs[p].args)

\* C19: when two sessions have run the same function with the same arguments
\* side by side over the same files, each ends as a single call would and
\* with the tables a single call would return, whether it computed them or
\* took them from the cache; and the cache holds at most one entry per
\* argument tuple, whose value is such a table.
C19_ConcurrentCallersAgree ==
    /\ \A p, q \in DOMAIN procs :
          (/\ p # q
           /\ procs[p].fn = procs[q].fn
           /\ procs[p].args = procs[q].args
           /\ procs[p].pc \in {"done", "raised"}
           /\ procs[q].pc \in {"done", "raised"})
          => IsSequentialOutcome(p) /\ IsSequentialOutcome(q)
    /\ \A i, j \in Rows(cache) :
          /\ cache[i].key = cache[j].key => i = j
          /\ IsLoaderResult(cache[i].value, cache[i].key)

\* two sessions raced on the loader with the same arguments: both missed the
\* cache, both computed a table of two rows, both are done
C19_Witness ==
    /\ Len(procs) = 2
    /\ procs[1].fn = "get_state_aqi_metrics"
    /\ procs[2].fn = "get_state_aqi_metrics"
    /\ procs[1].args = procs[2].args
    /\ procs[1].pc = "done" /\ procs[2].pc = "done"
    /\ procs[1].via = "computed" /\ procs[2].via = "computed"
    /\ Len(procs[1].result) = 2
    /\ Len(cache) = 1

-----------------------------------------------------------------------------
(* C20 *)

\* the number of a month name, whatever its case
MonthNumber(i) == month_map(MonthLower(pop_df[i].month))

\* the rows of state st in year y that are of the state's own latest month
LatestRowsOf(st, y) ==
    {i \in PopRowsOf(st, y) : \A j \in PopRowsOf(st, y) : MonthNumber(j) <= MonthNumber(i)}

\* C20: get_population_by_year returns, for every state with a population
\* row in the target year, a row whose population is the pop_total of a row
\* of that state's own latest month of the year, and no other row.
C20_LatestMonthPerState ==
    pc = "selected" =>
        /\ \A i \in Rows(pop_df) :
              pop_df[i].year = call.year
              => \E n \in Rows(pop_sel) : pop_sel[n].state = LowerStrip(pop_df[i].state)
        /\ \A n \in Rows(pop_sel) :
              \E i \in LatestRowsOf(pop_sel[n].state, call.year) :
                  pop_sel[n].population = RInt(pop_df[i].pop_total)

-----------------------------------------------------------------------------
(* C21 *)

\* the populations the cost table tbl shows for state st (normalised)
PopsOfCost(tbl, st) ==
    {tbl[i].population : i \in {n \in Rows(tbl) : tbl[n].state = StrTitle(st)}}

\* the populations the selection tbl holds for state st, null when it has none
PopsOfSel(tbl, st) ==
    IF \E n \in Rows(tbl) : tbl[n].state = st
    THEN {tbl[n].population : n \in {m \in Rows(tbl) : tbl[m].state = st}}
    ELSE {NaN}

\* C21: when compute_health_cost_impacts runs for the year and the population
\* table of a preceding get_population_by_year call, every state of its
\* result shows the populations that call selected for the state (null when
\* it selected none), and every selected population is the pop_total of a
\* row of that state and year, taken as it is.
C21_SamePopulationBothPaths ==
    [][(/\ pc = "idle"
        /\ "ended" \in DOMAIN call
        /\ call.ended = "selected"
        /\ pc' = "costed"
        /\ call'.target_year = call.year
        /\ pop_df' = pop_df)
       => /\ \A st \in CostStates(call.year) :
                PopsOfCost(cost_df', st) = PopsOfSel(pop_sel, st)
          /\ \A n \in Rows(pop_sel) :
                \E i \in PopRowsOf(pop_sel[n].state, call.year) :
                    pop_sel[n].population = RInt(pop_df[i].pop_total)]_vars

\* both paths have run for 2025: one state has the same population in both
\* results, the other has none in either
C21_Witness ==
    /\ pc = "costed"
    /\ call.target_year = 2025
    /\ pop_sel = get_population_by_year(pop_df, 2025)
    /\ \E i \in Rows(cost_df), n \in Rows(pop_sel) :
          /\ cost_df[i].state = StrTitle(pop_sel[n].state)
          /\ cost_df[i].population = pop_sel[n].population
          /\ cost_df[i].population = RInt(2)
    /\ \E i \in Rows(cost_df) :
          /\ cost_df[i].population = NaN
          /\ \A n \in Rows(pop_sel) : cost_df[i].state # StrTitle(pop_sel[n].state)

-----------------------------------------------------------------------------
(* C22 *)

\* the mean of base * (1 + pct / 100) over the rural and the urban segment of
\* row k of the expenditure table
MeanProjection(k) ==
    Rat(mpce_df[k].average_mpce_2023_2024_rural * (100 + mpce_df[k].percentage_increase_rural)
        + mpce_df[k].average_mpce_2023_2024_urban * (100 + mpce_df[k].percentage_increase_urban),
        200)

\* C22: in every risk table compute_state_risk returns, a state's
\* mpce_2024_25 is the mean of base * (1 + pct / 100) over the rural and the
\* urban segment of its expenditure row; and when the previous call, whatever
\* its target_year, returned over the same expenditure table, every state in
\* both tables has the same mpce_2024_25 in both.
C22_MpceSameForEveryYear ==
    [][pc' = "returned"
       => /\ \A i \in Rows(risk_df') :
                \E k \in Rows(mpce_df) :
                    /\ LowerStrip(mpce_df[k].State_UT) = risk_df'[i].state
                    /\ risk_df'[i].mpce_2024_25 = MeanProjection(k)
          /\ (/\ pc = "idle"
              /\ "ended" \in DOMAIN call
              /\ call.ended = "returned"
              /\ mpce_df' = mpce_df)
             => \A i \in Rows(risk_df), j \in Rows(risk_df') :
                    risk_df[i].state = risk_df'[j].state
                    => risk_df[i].mpce_2024_25 = risk_df'[j].mpce_2024_25]_vars

\* a call for 2024 has returned three states whose expenditure values are
\* not all equal and whose AQI and population are those of 2024
C22_Witness ==
    /\ pc = "returned"
    /\ call.target_year = 2024
    /\ Len(risk_df) = 3
    /\ \E i, j \in Rows(risk_df) : risk_df[i].mpce_2024_25 # risk_df[j].mpce_2024_25
    /\ \A i \in Rows(risk_df) :
          \E n \in Rows(aqi_df), m \in Rows(pop_df) :
              /\ aqi_df[n].date[3] = 2024 /\ aqi_df[n].state = risk_df[i].state
              /\ risk_df[i].avg_aqi = RInt(aqi_df[n].aqi_value)
              /\ pop_df[m].year = 2024 /\ pop_df[m].state = risk_df[i].state
              /\ risk_df[i].population = RInt(pop_df[m].pop_total)

-----------------------------------------------------------------------------
(* C23 *)

\* the row of state st in the joined table
JoinedRowOf(st) == CHOOSE n \in Rows(joined_df) : joined_df[n].state = st

\* C23: two rows of the returned risk table with equal risk_score are in
\* the order their states have in the joined table.
C23_TiesKeepJoinOrder ==
    pc = "returned" =>
        \A i, j \in Rows(risk_df) :
            (i < j /\ risk_df[i].risk_score = risk_df[j].risk_score)
            => JoinedRowOf(risk_df[i].state) < JoinedRowOf(risk_df[j].state)

-----------------------------------------------------------------------------
(* C24 *)

IsNumeric(p) == p[2] # 0

ConstantColumn(tbl, col) == ColMin(tbl, col) = ColMax(tbl, col)

\* C24 as stated: when all joined states have the same value in one of
\* avg_aqi, population or mpce_2024_25 (a single joined state included),
\* compute_state_risk does not raise, and the corresponding normalized
\* column and the risk_score are NaN in the output.
C24_ConstantColumnIsNaN ==
    /\ pc = "raised" => Len(joined_df) = 0
    /\ pc = "returned" =>
          \A c \in ScaledColumns :
              ConstantColumn(risk_df, c[1]) =>
                  \A i \in Rows(risk_df) :
                      /\ ~IsNumeric(risk_df[i][c[2]])
                      /\ ~IsNumeric(risk_df[i].risk_score)

\* C24 amended: when all joined states have the same value in one of the
\* three columns (a single joined state included), compute_state_risk does
\* not raise (it raises only on an empty joined set), the corresponding
\* normalized column is 0.0 for every state and every risk_score is a
\* number.
C24_ConstantColumnIsZero ==
    /\ pc = "raised" => Len(joined_df) = 0
    /\ pc = "returned" =>
          \A c \in ScaledColumns :
              ConstantColumn(risk_df, c[1]) =>
                  \A i \in Rows(risk_df) :
                      /\ risk_df[i][c[2]] = RInt(0)
                      /\ IsNumeric(risk_df[i].risk_score)

\* a call that returned one joined state (all three columns constant, score
\* 0.7*0 + 0.2*0 + 0.1*(1 - 0)), and a call that returned several states of
\* equal population and different avg_aqi
C24_Witness ==
    /\ pc = "returned"
    /\ \/ /\ Len(risk_df) = 1
          /\ risk_df[1].aqi_n = RInt(0) /\ risk_df[1].mpce_n = RInt(0)
          /\ risk_df[1].risk_score = Rat(1, 10)
       \/ /\ Len(risk_df) > 1
          /\ ConstantColumn(risk_df, "population")
          /\ ~ConstantColumn(risk_df, "avg_aqi")
          /\ \A i \in Rows(risk_df) : risk_df[i].pop_n = RInt(0)

-----------------------------------------------------------------------------
(* C25 *)

Negative(p) == p # NaN /\ RLt(p, RInt(0))
Positive(p) == p # NaN /\ RLt(RInt(0), p)

\* the rows of the result below the counterfactual with a harmful outcome
BelowCounterfactual(r) == Negative(r.delta_aqi) /\ RLt(RInt(1), r.rr_per_10ug)

CostKinds == {<<"cost_min", "cost_min_total">>, <<"cost_mean", "cost_mean_total">>, <<"cost_max", "cost_max_total">>}

\* C25 as stated: every row of the result with delta_aqi < 0 and
\* rr_per_10ug > 1 has rr_total < 1 and paf < 0, and with positive
\* baseline_incidence and population its attr_cases and its three cost
\* totals are negative; no value is clamped to 0.
C25_ProtectiveRowsNegative ==
    pc = "costed" =>
        \A i \in Rows(cost_df) :
            LET r == cost_df[i]
            IN  BelowCounterfactual(r) =>
                    /\ RLt(r.rr_total, RInt(1)) /\ Negative(r.paf)
                    /\ (r.baseline_incidence > 0 /\ Positive(r.population))
                       => /\ Negative(r.attr_cases)
                          /\ \A k \in CostKinds : Negative(r[k[2]])

\* C25 amended: every row of the result with delta_aqi < 0 and
\* rr_per_10ug > 1 has rr_total < 1 and paf < 0, and with positive
\* baseline_incidence and population its attr_cases is negative and each
\* cost total is negative when its unit cost is positive and zero when
\* its unit cost is zero; no value is clamped to 0.
C25_ProtectiveRowsNegativeByUnitCost ==
    pc = "costed" =>
        \A i \in Rows(cost_df) :
            LET r == cost_df[i]
            IN  BelowCounterfactual(r) =>
                    /\ RLt(r.rr_total, RInt(1)) /\ Negative(r.paf)
                    /\ (r.baseline_incidence > 0 /\ Positive(r.population))
                       => /\ Negative(r.attr_cases)
                          /\ \A k \in CostKinds :
                                /\ r[k[1]] > 0 => Negative(r[k[2]])
                                /\ r[k[1]] = 0 => IsZero(r[k[2]])

\* a state 10 below the counterfactual with a population, relative risk 2:
\* rr_total = 1/2, paf = -1, negative cases, a negative mean cost total
\* and a zero minimum cost total
C25_Witness ==
    /\ pc = "costed"
    /\ \E i \in Rows(cost_df) :
          /\ cost_df[i].delta_aqi = RInt(-10)
          /\ cost_df[i].rr_per_10ug = RInt(2)
          /\ cost_df[i].rr_total = Rat(1, 2)
          /\ cost_df[i].paf = RInt(-1)
          /\ Positive(cost_df[i].population)
          /\ Negative(cost_df[i].attr_cases)
          /\ Negative(cost_df[i].cost_mean_total)
          /\ cost_df[i].cost_min = 0 /\ IsZero(cost_df[i].cost_min_total)

-----------------------------------------------------------------------------
(* C26 *)

\* C26: when annual_state_aqi_calendar, project_mpce_2425,
\* get_population_by_year, extract_high_aqi_areas or harmonize_state_names
\* has returned, the caller's table has the same columns and values as
\* before the call.
C26_CallerTableUnchanged ==
    pc = "helped" => passed_df = call.passed

-----------------------------------------------------------------------------
(* C27 *)

\* what a cached function returns when its body runs on the files as they
\* are now
FromFiles(fn, args) ==
    IF fn = "load_aqi_table" THEN load_aqi_table(aqi_df)
    ELSE compute_avg_aqi(load_aqi(load_aqi_table(aqi_df)), args[1], args[2])

\* C27: every memoized result expires: a call of a cached loader or metric
\* function made 3600 s or more after the result for its arguments was
\* stored returns data computed from the files as they are then, also
\* when the files have been refreshed in between.
C27_StoredResultsExpire ==
    (pc = "served" /\ clock - call.stored_at >= ttl)
    => call.returned = FromFiles(call.fn, call.args)

-----------------------------------------------------------------------------
(* C28 *)

\* the days of the selected city in the frame handed to the breakdown
DaysWithData ==
    {passed_df[i].date : i \in {j \in Rows(passed_df) : passed_df[j].area_title = call.selected_city}}

\* the daily average of the selected city on day d
DailyAverage(d) ==
    MeanOf(SeqFilter(passed_df, [i \in Rows(passed_df) |->
               passed_df[i].area_title = call.selected_city /\ passed_df[i].date = d]),
           "aqi_value")

RECURSIVE SumDays(_)
SumDays(tbl) == IF tbl = <<>> THEN 0 ELSE Head(tbl).Number_of_Days + SumDays(Tail(tbl))

\* C28: every daily average v with 0 <= v <= 500 (fractional averages
\* included) is given one of the six bands, "Beyond Scale" is given only
\* to values above 500, and so every day with data from 0 to 500 is
\* counted in the breakdown.
C28_EveryDayInScaleCounted ==
    pc = "broken_down" =>
        LET in_scale == {d \in DaysWithData :
                            RLe(RInt(0), DailyAverage(d)) /\ RLe(DailyAverage(d), RInt(500))}
        IN  /\ \A d \in in_scale : get_aqi_category(DailyAverage(d)) # "Beyond Scale"
            /\ SumDays(breakdown) = Cardinality(in_scale)

-----------------------------------------------------------------------------
(* C29 *)

\* C29: the risk table holds at most one row per state, whatever the
\* source tables, a population table with several rows for a state in the
\* selected month and an MPCE table with repeated State/UT entries
\* included.
C29_OneRiskRowPerState ==
    pc = "returned" =>
        \A i, j \in Rows(risk_df) : risk_df[i].state = risk_df[j].state => i = j

-----------------------------------------------------------------------------
(* C30 *)

\* the mean over all readings of year y whose normalised state is st
YearMean(st, y) ==
    MeanOf(SeqFilter(aqi_df, [i \in Rows(aqi_df) |->
               LowerStrip(aqi_df[i].state) = st /\ aqi_df[i].date[3] = y]), "aqi_value")

\* C30: the avg_aqi compute_state_risk uses for a state equals the avg_aqi
\* compute_health_cost_impacts uses for it, and both are the mean over all
\* readings of the state in the year, also when the raw state names of
\* the readings differ in letter case or surrounding whitespace.
C30_SameAvgAqiBothPipelines ==
    /\ \A i \in Rows(risk_df) :
          risk_df[i].avg_aqi = YearMean(risk_df[i].state, risk_df[i].year)
    /\ \A k \in Rows(cost_df) :
          cost_df[k].avg_aqi = YearMean(StrLower(cost_df[k].state), 2025)
    /\ \A i \in Rows(risk_df), k \in Rows(cost_df) :
          (StrLower(cost_df[k].state) = risk_df[i].state /\ risk_df[i].year = 2025)
          => cost_df[k].avg_aqi = risk_df[i].avg_aqi

====
